---- MODULE Spec2Model ----
(***************************************************************************)
(* PassProtect: role-scoped tool authorization and identity binding.       *)
(*                                                                         *)
(* Three specifications share the variables below:                         *)
(*   SpecPolicy    the two allow-list functions (web and CLI) applied to   *)
(*                 role lists, and the tool filtering done with them;      *)
(*   Spec          the Tool Gateway (mcp_server.call_tool) driven by the   *)
(*                 web and CLI orchestration loops against the             *)
(*                 passprotect table;                                      *)
(*   SpecIdentity  login, token, session and the hand-over of the user id  *)
(*                 to the gateway process.                                 *)
(*                                                                         *)
(* Conventions.  A nullable column or an optional argument is a set with   *)
(* at most one element: {} is SQL NULL / "key not given", {v} is v.        *)
(* Strings that the code inspects (company names, digit strings, query     *)
(* text) are sequences of one-character strings.                           *)
(***************************************************************************)
EXTENDS Integers, Sequences, FiniteSets, TLC

VARIABLES
    records,      \* rows of table passprotect
    nextId,       \* AUTO_INCREMENT of passprotect.id
    gw,           \* the running gateway process and the turn that drives it
    last,         \* observation of the latest call_tool invocation
    pol,          \* inputs and outputs of the allow-list functions
    session,      \* Flask session of the browser (token or nothing)
    sessionFile,  \* ~/.passprotect/session.json (token or nothing)
    verified,     \* claims the running request / agent was started from
    JWT_SECRET,   \* jwt_utils.JWT_SECRET, read from the environment at import
    clock,        \* the time in hours
    userdb,       \* tables user, role and users_roles
    jwt,          \* latest create_token and verify_token calls made on their own
    attempt       \* latest login attempt and what its caller was shown

vars ==
    <<records, nextId, gw, last, pol, session, sessionFile, verified,
      JWT_SECRET, clock, userdb, jwt, attempt>>
storeVars == <<records, nextId>>
idVars == <<session, sessionFile, verified>>
authVars == <<JWT_SECRET, clock, userdb, jwt, attempt>>

----------------------------------------------------------------------------
(* Bounds of the model *)

MaxRecords == 1      \* rows ever inserted into passprotect
MaxRoles == 2        \* length of a role list

----------------------------------------------------------------------------
(* Small input domains *)

Users == {5, 12}
RoleNames == {"admin", "user", "generalUser", "readonly", "editor"}

RECURSIVE SeqsUpTo(_, _)
SeqsUpTo(S, n) ==
    IF n = 0 THEN {<<>>}
    ELSE LET shorter == SeqsUpTo(S, n - 1)
         IN shorter \cup {Append(s, x) : s \in {t \in shorter : Len(t) = n - 1}, x \in S}

RoleLists == SeqsUpTo(RoleNames, MaxRoles)

\* `x in seq` of Python for tuples and lists
In(x, seq) == \E i \in 1..Len(seq) : seq[i] = x

Range(seq) == {seq[i] : i \in 1..Len(seq)}

----------------------------------------------------------------------------
(* str() and int() on non-negative integers *)

DigitChar == <<"0", "1", "2", "3", "4", "5", "6", "7", "8", "9">>

RECURSIVE str(_)
str(n) ==
    IF n < 10 THEN <<DigitChar[n + 1]>>
    ELSE str(n \div 10) \o <<DigitChar[(n % 10) + 1]>>

DigitVal(c) == CHOOSE d \in 0..9 : DigitChar[d + 1] = c

RECURSIVE int(_)
int(s) ==
    IF Len(s) = 1 THEN DigitVal(s[1])
    ELSE 10 * int(SubSeq(s, 1, Len(s) - 1)) + DigitVal(s[Len(s)])

----------------------------------------------------------------------------
(* Authorization policy: the tool catalog and the two allow-list functions *)

\* names of the tools in the order list_tools returns them
list_tools ==
    <<"create_record", "read_records", "update_record", "delete_record",
      "get_table_schema", "execute_custom_query", "read_password">>

Catalog == Range(list_tools)

\* a slip in the readonly row: delete_record in place of read_password
get_allowed_tools_slip(roles) ==
    IF In("admin", roles) THEN
        {"create_record", "read_records", "update_record", "delete_record",
         "get_table_schema", "execute_custom_query", "read_password"}
    ELSE IF In("user", roles) \/ In("generalUser", roles) THEN
        {"create_record", "read_records", "update_record",
         "get_table_schema", "read_password", "execute_custom_query"}
    ELSE IF In("readonly", roles) THEN
        {"read_records", "get_table_schema", "delete_record"}
    ELSE {}

\* app.get_allowed_tools
get_allowed_tools(roles) ==
    IF In("admin", roles) THEN
        {"create_record", "read_records", "update_record", "delete_record",
         "get_table_schema", "execute_custom_query", "read_password"}
    ELSE IF In("user", roles) \/ In("generalUser", roles) THEN
        {"create_record", "read_records", "update_record",
         "get_table_schema", "read_password", "execute_custom_query"}
    ELSE IF In("readonly", roles) THEN
        {"read_records", "get_table_schema", "read_password"}
    ELSE {}

\* PassProtectAgent._get_allowed_tools, self._roles = tuple(roles)
agent_get_allowed_tools(roles) ==
    IF In("admin", roles) THEN
        {"create_record", "read_records", "update_record", "delete_record",
         "get_table_schema", "execute_custom_query", "read_password"}
    ELSE IF In("user", roles) \/ In("generalUser", roles) THEN
        {"create_record", "read_records", "update_record",
         "get_table_schema", "read_password"}
    ELSE IF In("readonly", roles) THEN
        {"read_records", "get_table_schema", "read_password"}
    ELSE {}

RECURSIVE FilterSeq(_, _)
FilterSeq(seq, S) ==
    IF seq = <<>> THEN <<>>
    ELSE IF Head(seq) \in S THEN <<Head(seq)>> \o FilterSeq(Tail(seq), S)
    ELSE FilterSeq(Tail(seq), S)

\* filtered_tools = [tool for tool in response.tools if tool.name in allowed_tools]
filtered_tools(allowed) == FilterSeq(list_tools, allowed)

\* the allow-list function each entry point uses
allowed_at(entry, roles) ==
    IF entry = "web" THEN get_allowed_tools(roles) ELSE agent_get_allowed_tools(roles)

----------------------------------------------------------------------------
(* Table passprotect and the arguments a planner may propose *)

Names == {<<"N", "e", "t">>, <<"I", "n", "e", "t">>}
Secrets == {"pw1"}
Companies == {<<>>, <<"n", "e", "t">>, <<"n", "e">>, <<"x">>}

Opt(S) == {{}} \cup {{x} : x \in S}

Rows ==
    [id : 1..(MaxRecords + 1), created_by_user_id : Opt(Users),
     companyName : Opt(Names), companyPassword : Opt(Secrets), archived : {0, 1}]

\* the `data` argument: a key is given ({v}) or not ({})
DataArgs ==
    [created_by_user_id : Opt(Users), companyName : Opt(Names),
     companyPassword : Opt(Secrets), archived : Opt({0, 1})]

NoData ==
    [created_by_user_id |-> {}, companyName |-> {}, companyPassword |-> {},
     archived |-> {}]

DataKeys == {"created_by_user_id", "companyName", "companyPassword", "archived"}

GivenKeys(d, keys) == {k \in keys : d[k] # {}}

\* data the planner proposes for create_record: nothing, or a company name
\* with any combination of owner and secret
CreateData == {d \in DataArgs : d.archived = {} /\ (d.companyName = {} => d = NoData)}

\* data the planner proposes for update_record: at most one of these columns
UpdateData ==
    {d \in DataArgs : d.archived = {} /\ Cardinality(GivenKeys(d, DataKeys)) <= 1}

\* the `conditions` argument
CondArgs ==
    [id : Opt(1..MaxRecords), created_by_user_id : Opt(Users), companyName : Opt(Names)]

NoConditions == [id |-> {}, created_by_user_id |-> {}, companyName |-> {}]

CondKeys == {"id", "created_by_user_id", "companyName"}

\* conditions proposed by the planner: at most one key per call
Conditions == {c \in CondArgs : Cardinality(GivenKeys(c, CondKeys)) <= 1}

DefaultLimit == 100
Limits == {DefaultLimit}

\* query texts for execute_custom_query, as words; " " is leading white space
Queries ==
    {<<>>, <<"SELECT", "*">>, <<" ", "select", "*">>, <<"DELETE", "*">>}

NoArgs ==
    [data |-> NoData, conditions |-> NoConditions, limit |-> DefaultLimit,
     query |-> <<>>, company |-> <<>>]

\* arguments the planner may attach to a call of tool `name`
ArgsOf(name) ==
    CASE name = "create_record" -> {[NoArgs EXCEPT !.data = d] : d \in CreateData}
      [] name = "read_records" ->
            {[NoArgs EXCEPT !.conditions = c, !.limit = l] : c \in Conditions, l \in Limits}
      [] name = "update_record" ->
            {[NoArgs EXCEPT !.data = d, !.conditions = c] : d \in UpdateData, c \in Conditions}
      [] name = "delete_record" -> {[NoArgs EXCEPT !.conditions = c] : c \in Conditions}
      [] name = "execute_custom_query" -> {[NoArgs EXCEPT !.query = q] : q \in Queries}
      [] name = "read_password" -> {[NoArgs EXCEPT !.company = c] : c \in Companies}
      [] OTHER -> {NoArgs}

\* tool names a planner may propose: the catalog and a name outside it
ToolNames == Catalog \cup {"get_recent_searches"}

----------------------------------------------------------------------------
(* SQL evaluation *)

\* WHERE k1 = %s AND k2 = %s ... built from the keys of `conditions`
Matches(row, c) ==
    /\ c.id # {} => {row.id} = c.id
    /\ c.created_by_user_id # {} => row.created_by_user_id = c.created_by_user_id
    /\ c.companyName # {} => row.companyName = c.companyName

\* UPDATE ... SET k = %s for the keys of `data`
SetColumns(row, d) ==
    [id |-> row.id,
     created_by_user_id |->
        IF d.created_by_user_id # {} THEN d.created_by_user_id ELSE row.created_by_user_id,
     companyName |-> IF d.companyName # {} THEN d.companyName ELSE row.companyName,
     companyPassword |->
        IF d.companyPassword # {} THEN d.companyPassword ELSE row.companyPassword,
     archived |-> IF d.archived # {} THEN (CHOOSE a \in d.archived : TRUE) ELSE row.archived]

\* INSERT INTO passprotect (keys of data) VALUES (...): other columns stay NULL
InsertedRow(id, d) ==
    [id |-> id, created_by_user_id |-> d.created_by_user_id,
     companyName |-> d.companyName, companyPassword |-> d.companyPassword,
     archived |-> CHOOSE a \in d.archived : TRUE]

LowerChar(c) ==
    CASE c = "N" -> "n" [] c = "I" -> "i" [] c = "E" -> "e" [] c = "T" -> "t"
      [] c = "X" -> "x" [] OTHER -> c

\* LOWER(s)
Lower(s) == [i \in 1..Len(s) |-> LowerChar(s[i])]

\* p occurs in s
Contains(s, p) ==
    \E i \in 0..(Len(s) - Len(p)) : SubSeq(s, i + 1, i + Len(p)) = p

\* s LIKE p: in the pattern % stands for any run of characters and _ for any
\* one character
RECURSIVE Like(_, _)
Like(s, p) ==
    IF p = <<>> THEN s = <<>>
    ELSE IF Head(p) = "%" THEN Like(s, Tail(p)) \/ (s # <<>> /\ Like(Tail(s), p))
    ELSE /\ s # <<>>
         /\ Head(p) = "_" \/ Head(p) = Head(s)
         /\ Like(Tail(s), Tail(p))

\* created_by_user_id = %s with the string AUTHENTICATED_USER_ID as parameter
OwnedBy(row, user_id_str) == row.created_by_user_id = {int(user_id_str)}

----------------------------------------------------------------------------
(* mcp_server.execute_query and call_tool *)

\* `fail` says which execute_query of the call raises: 0 none, 1 the first,
\* 2 the second.  A failing query is rolled back and changes nothing.
FailsOf(name) ==
    IF name = "read_password" THEN {0, 1, 2}
    ELSE IF name \in Catalog THEN {0, 1}
    ELSE {0}

Result(kind, returned, calls, affected, recs, nid) ==
    [kind |-> kind, returned |-> returned, calls |-> calls, affected |-> affected,
     recs |-> recs, nid |-> nid]

\* early "Error: ..." return, taken before any execute_query
Refused(recs, nid) == Result("validation", {}, 0, 0, recs, nid)

\* a call_tool without its try block: the exception leaves the handler
Raised_propagated(calls, recs, nid) == Result("exception", {}, calls, 0, recs, nid)

\* except Exception as e: return "Error: ..." after `calls` execute_query calls
Raised(calls, recs, nid) == Result("error", {}, calls, 0, recs, nid)

\* ... LIMIT n: with n rows or fewer the whole selection is returned
Limit(rows, n) ==
    IF Cardinality(rows) <= n THEN rows
    ELSE CHOOSE S \in SUBSET rows : Cardinality(S) = n

create_record(args, recs, nid, fail) ==
    LET data == IF args.data.archived = {} /\ args.data # NoData
                THEN [args.data EXCEPT !.archived = {0}] ELSE args.data
    IN IF args.data = NoData THEN Refused(recs, nid)
       ELSE IF fail = 1 THEN Raised(1, recs, nid)
       ELSE Result("ok", {}, 1, 1, recs \cup {InsertedRow(nid, data)}, nid + 1)

read_records(args, recs, nid, fail) ==
    LET selected == {r \in recs : Matches(r, args.conditions)}
    IN IF fail = 1 THEN Raised(1, recs, nid)
       ELSE Result("ok", Limit(selected, args.limit), 1, 0, recs, nid)

update_record(args, recs, nid, fail) ==
    LET selected == {r \in recs : Matches(r, args.conditions)}
        changed == {r \in selected : SetColumns(r, args.data) # r}
    IN IF args.data = NoData THEN Refused(recs, nid)
       ELSE IF args.conditions = NoConditions THEN Refused(recs, nid)
       ELSE IF fail = 1 THEN Raised(1, recs, nid)
       ELSE Result("ok", {}, 1, Cardinality(changed),
                   (recs \ selected) \cup {SetColumns(r, args.data) : r \in selected}, nid)

\* delete_record without the check for empty conditions
delete_record_unguarded(args, recs, nid, fail) ==
    LET selected == {r \in recs : Matches(r, args.conditions)}
    IN IF fail = 1 THEN Raised(1, recs, nid)
       ELSE Result("ok", {}, 1, Cardinality(selected), recs \ selected, nid)

delete_record(args, recs, nid, fail) ==
    LET selected == {r \in recs : Matches(r, args.conditions)}
    IN IF args.conditions = NoConditions THEN Refused(recs, nid)
       ELSE IF fail = 1 THEN Raised(1, recs, nid)
       ELSE Result("ok", {}, 1, Cardinality(selected), recs \ selected, nid)

get_table_schema(recs, nid, fail) ==
    IF fail = 1 THEN Raised(1, recs, nid)
    ELSE Result("ok", {}, 1, 0, recs, nid)

UpperWord(w) == IF w = "select" THEN "SELECT" ELSE IF w = "delete" THEN "DELETE" ELSE w

\* the words of a query text other than white space
QueryWords == {"SELECT", "select", "DELETE", "delete", "*", ";", "TRUNCATE"}

\* query.strip().upper().startswith("SELECT")
IsSelect(query) ==
    LET stripped == FilterSeq(query, QueryWords)
    IN stripped # <<>> /\ UpperWord(Head(stripped)) = "SELECT"

\* the text holds a second statement after a ";"
Stacked(query) == \E i \in 1..(Len(query) - 1) : query[i] = ";"

\* the table after the server has run every statement of the text: TRUNCATE
\* commits by itself, a DELETE is never committed by execute_query(fetch=True)
AfterQuery(query, recs) == IF "TRUNCATE" \in Range(query) THEN {} ELSE recs

\* fail = 1: the query raises and nothing ran; for a text of several
\* statements the server runs them all, and the connector then returns the
\* rows of the first (fail = 0) or raises for want of multi=True (fail = 2)
execute_custom_query(args, recs, nid, fail) ==
    IF args.query = <<>> THEN Refused(recs, nid)
    ELSE IF ~IsSelect(args.query) THEN Refused(recs, nid)
    ELSE IF fail = 1 THEN Raised(1, recs, nid)
    ELSE IF ~Stacked(args.query) THEN Result("ok", recs, 1, 0, recs, nid)
    ELSE IF fail = 2 THEN Result("error", {}, 1, 0, AfterQuery(args.query, recs), nid)
    ELSE Result("ok", recs, 1, 0, AfterQuery(args.query, recs), nid)

read_password(args, user_id_str, recs, nid, fail) ==
    LET mine == {r \in recs : OwnedBy(r, user_id_str) /\ r.archived = 0
                              /\ r.companyName # {}}
        NameOf(r) == CHOOSE n \in r.companyName : TRUE
        exact == {r \in mine : Lower(NameOf(r)) = Lower(args.company)}
        partial == {r \in mine : Like(Lower(NameOf(r)),
                                       Lower(<<"%">> \o args.company \o <<"%">>))}
    IN IF user_id_str = <<>> THEN Refused(recs, nid)
       ELSE IF args.company = <<>> THEN Refused(recs, nid)
       ELSE IF fail = 1 THEN Raised(1, recs, nid)
       ELSE IF exact # {} THEN Result("ok", exact, 1, 0, recs, nid)
       ELSE IF fail = 2 THEN Raised(2, recs, nid)
       ELSE IF partial # {} THEN Result("ok", partial, 2, 0, recs, nid)
       ELSE Result("notfound", {}, 2, 0, recs, nid)

\* mcp_server.call_tool: dispatch on the tool name; no role or allow-list is
\* consulted here, and only read_password reads AUTHENTICATED_USER_ID
call_tool(name, args, user_id_str, recs, nid, fail) ==
    CASE name = "create_record" -> create_record(args, recs, nid, fail)
      [] name = "read_records" -> read_records(args, recs, nid, fail)
      [] name = "update_record" -> update_record(args, recs, nid, fail)
      [] name = "delete_record" -> delete_record(args, recs, nid, fail)
      [] name = "get_table_schema" -> get_table_schema(recs, nid, fail)
      [] name = "execute_custom_query" -> execute_custom_query(args, recs, nid, fail)
      [] name = "read_password" -> read_password(args, user_id_str, recs, nid, fail)
      [] OTHER -> Result("unknown", {}, 0, 0, recs, nid)

----------------------------------------------------------------------------
(* State of the gateway process and of the turn that drives it *)

NoGw == [entry |-> "none", USER_ID |-> <<>>, roles |-> <<>>, tools |-> <<>>]

NoLast ==
    [op |-> "none", kind |-> "none", calls |-> 0, returned |-> {}, noconds |-> FALSE]

\* pol.web and pol.cli are <<>> until the function has been applied, then
\* <<result for pol.roles, result for pol.other>>
NoPol == [roles |-> <<>>, other |-> <<>>, web |-> <<>>, cli |-> <<>>]

NoToken == {}
NoClaims == {}

\* what a call gave: the value it returned or the exception it raised
NoResult == [ok |-> FALSE, raised |-> "none", error |-> "none", out |-> {}]

\* a return value
Returned(x) == [ok |-> TRUE, raised |-> "none", error |-> "none", out |-> {x}]

\* raise class(message)
Raise(class, message) == [ok |-> FALSE, raised |-> class, error |-> message, out |-> {}]

\* no create_token or verify_token call observed yet.  user_id, username and
\* roles are the arguments of the latest create_token, issued the token it
\* returned, presented the token handed to verify_token, at the time of the
\* latest call and result what it gave
NoJwt ==
    [op |-> "none", user_id |-> 0, username |-> "", roles |-> <<>>,
     issued |-> {}, presented |-> {}, at |-> 0, result |-> NoResult]

\* no login attempted yet.  entry is the handler that ran, auth what
\* authenticate_user gave, roles what load_user_roles gave, shown the message
\* the caller of the handler was shown, token the token stored in the session
NoAttempt ==
    [entry |-> "none", user_id |-> 0, username |-> "", password |-> "", fail |-> 0,
     auth |-> NoResult, roles |-> <<>>, shown |-> "none", token |-> {}]

\* table user: alice (id 5) and bob (id 12), both enabled and not archived;
\* table role: admin, readonly, and the archived role editor;
\* users_roles: alice is admin, bob is readonly
SeedUserDb ==
    [user |-> {[id |-> 5, userName |-> "alice", password |-> "hash-a", enabled |-> 1,
                archived |-> 0, lastLogin |-> {}],
               [id |-> 12, userName |-> "bob", password |-> "hash-b", enabled |-> 1,
                archived |-> 0, lastLogin |-> {}]},
     role |-> {[id |-> 1, name |-> "admin", archived |-> 0],
               [id |-> 2, name |-> "readonly", archived |-> 0],
               [id |-> 3, name |-> "editor", archived |-> 1]},
     users_roles |-> {<<5, 1>>, <<12, 2>>}]

\* the secret is configured, the clock is at 0, nothing was attempted
AuthIdle ==
    /\ JWT_SECRET = "secret"
    /\ clock = 0
    /\ userdb = SeedUserDb
    /\ jwt = NoJwt
    /\ attempt = NoAttempt

\* StdioServerParameters(env = {..., "USER_ID": str(user_id)}) starts mcp_server,
\* whose AUTHENTICATED_USER_ID = os.getenv('USER_ID'); the tools offered to the
\* planner are list_tools filtered by the entry point's allow-list
Spawn(entry, user_id, roles) ==
    [entry |-> entry, USER_ID |-> str(user_id), roles |-> roles,
     tools |-> filtered_tools(allowed_at(entry, roles))]

\* a record user 12 stored for himself earlier
StoredRecord ==
    [id |-> 1, created_by_user_id |-> {12}, companyName |-> {<<"I", "n", "e", "t">>},
     companyPassword |-> {"pw1"}, archived |-> 0]

\* the table is empty, or holds StoredRecord
Init ==
    /\ \/ records = {} /\ nextId = 1
       \/ records = {StoredRecord} /\ nextId = 2
    /\ gw = NoGw
    /\ last = NoLast
    /\ pol = NoPol
    /\ session = NoToken
    /\ sessionFile = NoToken
    /\ verified = NoClaims
    /\ AuthIdle

----------------------------------------------------------------------------
(* Orchestration: web chat turn, CLI agent, and the tool call loop *)

\* app.process_chat_message up to the planner's first completion
process_chat_message(user_id, roles) ==
    /\ gw.entry = "none"
    /\ gw' = Spawn("web", user_id, roles)
    /\ UNCHANGED <<records, nextId, last, pol>>

\* the loop body of process_chat_message / process_request: the next tool
\* call the planner proposed is sent to the gateway process and its result is
\* recorded.  The planner proposes any number of calls in a turn; name and
\* arguments are its choice and are not checked by the loop.
ToolCall(name, args, fail) ==
    /\ gw.entry # "none"
    /\ LET r == call_tool(name, args, gw.USER_ID, records, nextId, fail)
       IN /\ r.nid # nextId => r.nid <= MaxRecords + 1
          /\ records' = r.recs
          /\ nextId' = r.nid
          /\ last' = [op |-> name, kind |-> r.kind, calls |-> r.calls,
                      returned |-> r.returned,
                      noconds |-> (args.conditions = NoConditions)]
    /\ UNCHANGED <<gw, pol, idVars, authVars>>

\* process_chat_message after the loop: final completion, the gateway
\* process ends with the `async with` blocks
WebChatEnd ==
    /\ gw.entry = "web"
    /\ gw' = NoGw
    /\ last' = NoLast
    /\ verified' = NoClaims
    /\ UNCHANGED <<records, nextId, pol, session, sessionFile, authVars>>

\* PassProtectAgent.__init__ and connect_to_mcp
connect_to_mcp(user_id, roles) ==
    /\ gw.entry = "none"
    /\ gw' = Spawn("cli", user_id, roles)
    /\ UNCHANGED <<records, nextId, last, pol>>

\* PassProtectAgent.cleanup
cleanup ==
    /\ gw.entry = "cli"
    /\ gw' = NoGw
    /\ last' = NoLast
    /\ verified' = NoClaims
    /\ UNCHANGED <<records, nextId, pol, session, sessionFile, authVars>>

----------------------------------------------------------------------------
(* Spec: the gateway driven by requests whose verified claims are inputs *)

\* role lists of the callers of the gateway
CallerRoles == {<<"admin">>, <<"generalUser">>, <<"readonly">>}

WebChat ==
    \E u \in Users, roles \in CallerRoles :
        process_chat_message(u, roles) /\ UNCHANGED <<idVars, authVars>>

CliConnect ==
    \E u \in Users, roles \in CallerRoles :
        connect_to_mcp(u, roles) /\ UNCHANGED <<idVars, authVars>>

\* a proposed call all of whose queries succeed
PlannerCall ==
    \E name \in ToolNames : \E args \in ArgsOf(name) : ToolCall(name, args, 0)

\* a proposed call one of whose queries raises; what is returned then does
\* not depend on the values in the arguments, so a few arguments stand for all
FailingArgs(name) ==
    {a \in ArgsOf(name) :
        /\ a.data \in {NoData, [NoData EXCEPT !.companyPassword = {"pw1"}]}
        /\ a.conditions \in {NoConditions, [NoConditions EXCEPT !.id = {1}]}
        /\ a.company \in {<<>>, <<"n", "e">>}}

StorageFailure ==
    \E name \in Catalog : \E args \in FailingArgs(name), fail \in FailsOf(name) \ {0} :
        ToolCall(name, args, fail)

Next ==
    \/ WebChat
    \/ WebChatEnd
    \/ CliConnect
    \/ cleanup
    \/ PlannerCall
    \/ StorageFailure

Spec == Init /\ [][Next]_vars

----------------------------------------------------------------------------
(* SpecPolicy: the allow-list functions applied to two role lists *)

\* what an entry point derives from a role list: the allow-list and the tools
\* it offers to the planner
Derived(entry, roles) ==
    [allowed |-> allowed_at(entry, roles),
     offered |-> filtered_tools(allowed_at(entry, roles))]

InitPolicy ==
    /\ records = {}
    /\ nextId = 1
    /\ gw = NoGw
    /\ last = NoLast
    /\ pol \in [roles : RoleLists, other : RoleLists, web : {<<>>}, cli : {<<>>}]
    /\ session = NoToken
    /\ sessionFile = NoToken
    /\ verified = NoClaims
    /\ AuthIdle

\* process_chat_message: allowed_tools = get_allowed_tools(roles), then filtering
PolicyWeb ==
    /\ pol.web = <<>>
    /\ pol' = [pol EXCEPT !.web = <<Derived("web", pol.roles), Derived("web", pol.other)>>]
    /\ UNCHANGED <<records, nextId, gw, last, idVars, authVars>>

\* connect_to_mcp: allowed_tools = self._get_allowed_tools(), then filtering
PolicyCli ==
    /\ pol.cli = <<>>
    /\ pol' = [pol EXCEPT !.cli = <<Derived("cli", pol.roles), Derived("cli", pol.other)>>]
    /\ UNCHANGED <<records, nextId, gw, last, idVars, authVars>>

NextPolicy ==
    \/ PolicyWeb
    \/ PolicyCli

SpecPolicy == InitPolicy /\ [][NextPolicy]_vars

----------------------------------------------------------------------------
(* Tokens: create_token and verify_token *)

JWT_EXPIRATION_HOURS == 8

Username(u) == IF u = 5 THEN "alice" ELSE "bob"

\* jwt.encode(payload, JWT_SECRET): the payload and the key it is signed with
Encode(payload, key) ==
    [form |-> "jwt", sub |-> payload.sub, username |-> payload.username,
     roles |-> payload.roles, iat |-> payload.iat, exp |-> payload.exp, key |-> key]

\* jwt_utils.create_token at the time the clock shows
create_token(user_id, username, roles) ==
    IF JWT_SECRET = "" THEN
        Raise("TokenError", "JWT_SECRET environment variable not configured")
    ELSE Returned(Encode([sub |-> str(user_id), username |-> username, roles |-> roles,
                          iat |-> clock, exp |-> clock + JWT_EXPIRATION_HOURS],
                         JWT_SECRET))

\* the token create_token returned
Issued(user_id, username, roles) == create_token(user_id, username, roles).out

Reverse(seq) == [i \in 1..Len(seq) |-> seq[Len(seq) + 1 - i]]

\* a decode that gives the roles back in the opposite order
ClaimsOf_reordered(token) ==
    [sub |-> token.sub, username |-> token.username, roles |-> Reverse(token.roles),
     iat |-> token.iat, exp |-> token.exp]

\* the payload jwt.decode returns
ClaimsOf(token) ==
    [sub |-> token.sub, username |-> token.username, roles |-> token.roles,
     iat |-> token.iat, exp |-> token.exp]

\* the outcomes of the exp check of jwt.decode at time `at`: past exp the
\* token is expired, before it it is not, and at the instant exp itself
\* the answer is the one of the installed PyJWT (exp <= now or exp < now)
ExpiredAt(token, at) ==
    IF at > token.exp THEN {TRUE}
    ELSE IF at < token.exp THEN {FALSE}
    ELSE BOOLEAN

\* verify_token that never raises "Token has expired"
verify_token_no_expiry(token, expired) ==
    IF JWT_SECRET = "" THEN
        Raise("TokenError", "JWT_SECRET environment variable not configured")
    ELSE IF token.form # "jwt" \/ token.key # JWT_SECRET THEN
        Raise("TokenError", "Invalid token")
    ELSE Returned(ClaimsOf(token))

\* jwt_utils.verify_token; `expired` is the outcome of the exp check
verify_token(token, expired) ==
    IF JWT_SECRET = "" THEN
        Raise("TokenError", "JWT_SECRET environment variable not configured")
    ELSE IF token.form # "jwt" \/ token.key # JWT_SECRET THEN
        Raise("TokenError", "Invalid token")
    ELSE IF expired THEN Raise("TokenError", "Token has expired")
    ELSE Returned(ClaimsOf(token))

\* a session file written by hand: any subject and roles, signed with a key
\* that is not JWT_SECRET
ForgedTokens ==
    {[form |-> "jwt", sub |-> str(u), username |-> Username(u), roles |-> <<"admin">>,
      iat |-> 0, exp |-> JWT_EXPIRATION_HOURS, key |-> "other"] : u \in Users}

----------------------------------------------------------------------------
(* Users and roles: authenticate_user, load_user_roles *)

\* bcrypt.hashpw with the salt of the stored hash
Bcrypt(plain) ==
    IF plain = "pw-a" THEN "hash-a" ELSE IF plain = "pw-b" THEN "hash-b" ELSE "hash-x"

\* password_utils.verify_password: bcrypt.checkpw or PasswordVerificationError
verify_password(plain_password, password_hash) ==
    IF Bcrypt(plain_password) = password_hash THEN Returned(TRUE)
    ELSE Raise("PasswordVerificationError", "Password verification failed")

\* authenticate_user that does not look at the archived and enabled columns
authenticate_user_any_account(username, password, fail) ==
    IF username = "" \/ password = "" THEN
        Raise("AuthenticationError", "Username and password are required")
    ELSE IF fail # 0 THEN Raise("Exception", "Query execution failed")
    ELSE LET found == {r \in userdb.user : r.userName = username}
         IN IF found = {} THEN Raise("AuthenticationError", "Invalid username or password")
            ELSE LET user_record == CHOOSE r \in found : TRUE
                 IN IF ~verify_password(password, user_record.password).ok THEN
                        Raise("AuthenticationError", "Invalid username or password")
                    ELSE Returned([id |-> user_record.id,
                                   userName |-> user_record.userName])

\* auth.authenticate_user; fail # 0 when fetch_one raises
authenticate_user(username, password, fail) ==
    IF username = "" \/ password = "" THEN
        Raise("AuthenticationError", "Username and password are required")
    ELSE IF fail # 0 THEN Raise("Exception", "Query execution failed")
    ELSE LET found == {r \in userdb.user : r.userName = username}
         IN IF found = {} THEN Raise("AuthenticationError", "Invalid username or password")
            ELSE LET user_record == CHOOSE r \in found : TRUE
                 IN IF user_record.archived # 0 THEN
                        Raise("AuthenticationError", "Account is archived")
                    ELSE IF user_record.enabled = 0 THEN
                        Raise("AuthenticationError", "Account is disabled")
                    ELSE IF ~verify_password(password, user_record.password).ok THEN
                        Raise("AuthenticationError", "Invalid username or password")
                    ELSE Returned([id |-> user_record.id,
                                   userName |-> user_record.userName])

\* the orders in which a query without ORDER BY may return the rows
Orderings(S) == {q \in [1..Cardinality(S) -> S] : Range(q) = S}

\* the rows of role joined with users_roles for a user
JoinedRoles(user_id) ==
    {r \in userdb.role : <<user_id, r.id>> \in userdb.users_roles}

\* load_user_roles that keeps the archived roles
load_user_roles_with_archived(user_id) ==
    IF user_id = 0 THEN {<<>>}
    ELSE {[i \in DOMAIN q |-> q[i].name] : q \in Orderings(JoinedRoles(user_id))}

\* auth.load_user_roles: the lists it may return (one per order of the rows)
load_user_roles(user_id) ==
    IF user_id = 0 THEN {<<>>}
    ELSE {[i \in DOMAIN q |-> q[i].name] :
            q \in Orderings({r \in JoinedRoles(user_id) : r.archived = 0})}

\* cli_login.update_last_login
update_last_login(user_id) ==
    [userdb EXCEPT !.user = {IF r.id = user_id THEN [r EXCEPT !.lastLogin = {clock}] ELSE r :
                               r \in userdb.user}]

----------------------------------------------------------------------------
(* SpecIdentity: session and the user id handed to the gateway *)

\* the JSON body of POST /api/chat may carry any text, so also a user id
ChatBodies == [says_user_id : Opt(Users)]

\* a handler that trusts a user id found in the request body
chat_user_id_from_body(claims, body) ==
    IF body.says_user_id = {} THEN int(claims.sub)
    ELSE CHOOSE u \in body.says_user_id : TRUE

\* login_required: request.user_id = int(claims['sub']); api_chat passes
\* user_id = request.user_id, whatever message and history say
chat_user_id(claims, body) == int(claims.sub)

\* a table with one record of each user
InitIdentity ==
    /\ records =
         {StoredRecord,
          [id |-> 2, created_by_user_id |-> {5}, companyName |-> {<<"N", "e", "t">>},
           companyPassword |-> {"pw1"}, archived |-> 0]}
    /\ nextId = 3
    /\ gw = NoGw
    /\ last = NoLast
    /\ pol = NoPol
    /\ session = NoToken
    /\ sessionFile = NoToken
    /\ verified = NoClaims
    /\ AuthIdle

\* app.login, the path on which authentication succeeds
WebLogin ==
    \E u \in Users, roles \in CallerRoles :
        /\ session' = Issued(u, Username(u), roles)
        /\ UNCHANGED <<records, nextId, gw, last, pol, sessionFile, verified, authVars>>

\* app.logout: session.clear()
logout ==
    /\ session # NoToken
    /\ session' = NoToken
    /\ UNCHANGED <<records, nextId, gw, last, pol, sessionFile, verified>>
    /\ UNCHANGED <<JWT_SECRET, clock, userdb, jwt>>

WebLogout == logout /\ UNCHANGED attempt

\* a request handler that loads the roles of the user again
request_roles_reloaded(claims) ==
    CHOOSE r \in load_user_roles(int(claims.sub)) : TRUE

\* login_required: request.roles = claims['roles']
request_roles(claims) == claims.roles

\* a login_required that redirects on a bad token and keeps the session
api_chat_keeps_session(body, token, expired) ==
    LET v == verify_token(token, expired)
    IN /\ IF v.ok
          THEN \E claims \in v.out :
                   /\ process_chat_message(chat_user_id(claims, body), request_roles(claims))
                   /\ verified' = {claims}
                   /\ UNCHANGED <<session, sessionFile>>
          ELSE UNCHANGED <<records, nextId, gw, last, pol, session, sessionFile, verified>>
       /\ UNCHANGED <<JWT_SECRET, clock, userdb, jwt>>

\* login_required around api_chat, then process_chat_message; `expired` is
\* the outcome of the exp check made on the token of the session
api_chat(body, token, expired) ==
    LET v == verify_token(token, expired)
    IN /\ IF v.ok
          THEN \E claims \in v.out :
                   /\ process_chat_message(chat_user_id(claims, body), request_roles(claims))
                   /\ verified' = {claims}
                   /\ UNCHANGED <<session, sessionFile>>
          ELSE /\ session' = NoToken
               /\ UNCHANGED <<records, nextId, gw, last, pol, sessionFile, verified>>
       /\ UNCHANGED <<JWT_SECRET, clock, userdb, jwt>>

\* a chat request arriving at any time
ApiChat ==
    \E body \in ChatBodies, expired \in BOOLEAN, token \in session :
        api_chat(body, token, expired) /\ UNCHANGED attempt

\* cli_login.login, the path on which authentication succeeds
CliLogin ==
    \E u \in Users, roles \in CallerRoles :
        /\ sessionFile' = Issued(u, Username(u), roles)
        /\ UNCHANGED <<records, nextId, gw, last, pol, session, verified, authVars>>

\* the session file is edited outside the program
CliTamper ==
    \E token \in ForgedTokens :
        /\ sessionFile' = {token}
        /\ UNCHANGED <<records, nextId, gw, last, pol, session, verified, authVars>>

\* session.require_auth
require_auth(expired) ==
    IF sessionFile = NoToken THEN Raise("SessionError", "No active session found")
    ELSE LET v == verify_token(CHOOSE t \in sessionFile : TRUE, expired)
         IN IF v.ok THEN v ELSE Raise("SessionError", "Session expired or invalid")

\* passProtect.main: require_auth succeeds, the agent is built from its claims
main(expired) ==
    /\ require_auth(expired).ok
    /\ \E claims \in require_auth(expired).out :
           /\ connect_to_mcp(int(claims.sub), claims.roles)
           /\ verified' = {claims}
    /\ UNCHANGED <<session, sessionFile, JWT_SECRET, clock, userdb, jwt>>

\* the agent is started at any time
CliMain == \E expired \in BOOLEAN : main(expired) /\ UNCHANGED attempt

\* passProtect.main: require_auth raises SessionError, perform_login succeeds
\* and returns the claims of the token it saved
CliMainLogin ==
    \E expired \in BOOLEAN, u \in Users, roles \in CallerRoles :
        LET claims == [sub |-> str(u), username |-> Username(u), roles |-> roles]
        IN /\ ~require_auth(expired).ok
           /\ sessionFile' = Issued(u, Username(u), roles)
           /\ connect_to_mcp(int(claims.sub), claims.roles)
           /\ verified' = {claims}
           /\ UNCHANGED <<session, authVars>>

\* tools that only read
ReadTools == {"read_records", "read_password", "get_table_schema", "execute_custom_query"}

\* the planner proposes calls of the reading tools, with any arguments
ReadCall ==
    \E name \in ReadTools : \E args \in ArgsOf(name), fail \in FailsOf(name) :
        ToolCall(name, args, fail)

NextIdentity ==
    \/ WebLogin
    \/ WebLogout
    \/ ApiChat
    \/ WebChatEnd
    \/ CliLogin
    \/ CliTamper
    \/ CliMain
    \/ CliMainLogin
    \/ cleanup
    \/ ReadCall

SpecIdentity == InitIdentity /\ [][NextIdentity]_vars

----------------------------------------------------------------------------
(* SpecLogin: authenticate_user, load_user_roles and the login handlers *)

\* what the login handlers do with (username, password): authenticate, load
\* the roles, create the token, update lastLogin; the message is the one of
\* the except branch taken
LoginOutcome(username, password, fail, roles) ==
    LET auth == authenticate_user(username, password, fail)
    IN IF username = "" \/ password = "" THEN
           [auth |-> NoResult, shown |-> "Username and password are required",
            token |-> {}, db |-> userdb, user_id |-> 0]
       ELSE IF ~auth.ok THEN
           [auth |-> auth,
            shown |-> IF auth.raised = "AuthenticationError" THEN auth.error
                      ELSE "Login failed",
            token |-> {}, db |-> userdb, user_id |-> 0]
       ELSE LET user == CHOOSE x \in auth.out : TRUE
                created == create_token(user.id, user.userName, roles)
            IN IF ~created.ok THEN
                   [auth |-> auth, shown |-> "Login failed", token |-> {},
                    db |-> userdb, user_id |-> user.id]
               ELSE [auth |-> auth, shown |-> "Login successful", token |-> created.out,
                     db |-> update_last_login(user.id), user_id |-> user.id]

\* the roles load_user_roles may give for the user the login authenticates
RolesAtLogin(username, password, fail) ==
    LET auth == authenticate_user(username, password, fail)
    IN IF auth.ok THEN load_user_roles((CHOOSE x \in auth.out : TRUE).id) ELSE {<<>>}

\* app.login (POST)
login(username, password, fail) ==
    \E roles \in RolesAtLogin(username, password, fail) :
        LET o == LoginOutcome(username, password, fail, roles)
        IN /\ attempt' = [entry |-> "web", user_id |-> o.user_id, username |-> username,
                          password |-> password, fail |-> fail, auth |-> o.auth,
                          roles |-> roles, shown |-> o.shown, token |-> o.token]
           /\ userdb' = o.db
           /\ session' = IF o.token # {} THEN o.token ELSE session
           /\ UNCHANGED <<records, nextId, gw, last, pol, sessionFile, verified,
                          JWT_SECRET, clock, jwt>>

\* cli_login.login and passProtect.perform_login
cli_login(username, password, fail) ==
    \E roles \in RolesAtLogin(username, password, fail) :
        LET o == LoginOutcome(username, password, fail, roles)
        IN /\ attempt' = [entry |-> "cli", user_id |-> o.user_id, username |-> username,
                          password |-> password, fail |-> fail, auth |-> o.auth,
                          roles |-> roles, shown |-> o.shown, token |-> o.token]
           /\ userdb' = o.db
           /\ sessionFile' = IF o.token # {} THEN o.token ELSE sessionFile
           /\ UNCHANGED <<records, nextId, gw, last, pol, session, verified,
                          JWT_SECRET, clock, jwt>>

\* authenticate_user(username, password) called on its own
Authenticate(username, password, fail) ==
    /\ attempt' = [NoAttempt EXCEPT !.entry = "authenticate_user", !.username = username,
                                    !.password = password, !.fail = fail,
                                    !.auth = authenticate_user(username, password, fail)]
    /\ UNCHANGED <<records, nextId, gw, last, pol, idVars, JWT_SECRET, clock, userdb, jwt>>

\* load_user_roles(user_id) called on its own
LoadRoles(user_id) ==
    \E roles \in load_user_roles(user_id) :
        /\ attempt' = [NoAttempt EXCEPT !.entry = "load_user_roles", !.user_id = user_id,
                                        !.roles = roles]
        /\ UNCHANGED <<records, nextId, gw, last, pol, idVars, JWT_SECRET, clock,
                       userdb, jwt>>

\* what is typed at a login prompt
LoginNames == {"", "alice", "bob", "carol"}
Passwords == {"", "pw-a", "pw-b"}

\* ids load_user_roles is called with
UserIds == {0, 5, 12}

\* states of the tables: alice enabled or not, archived or not, role
\* readonly archived or not, and who is assigned which roles
UserDbs ==
    {[user |-> {IF r.id = 5 THEN [r EXCEPT !.enabled = e, !.archived = a] ELSE r :
                  r \in SeedUserDb.user},
      role |-> {IF r.id = 2 THEN [r EXCEPT !.archived = ra] ELSE r : r \in SeedUserDb.role},
      users_roles |-> ur] :
        e \in {0, 1}, a \in {0, 1}, ra \in {0, 1},
        ur \in {{}, {<<5, 1>>, <<12, 2>>}, {<<5, 1>>, <<5, 2>>, <<5, 3>>, <<0, 1>>},
                {<<12, 3>>, <<12, 2>>}}}

InitLogin ==
    /\ records = {}
    /\ nextId = 1
    /\ gw = NoGw
    /\ last = NoLast
    /\ pol = NoPol
    /\ session = NoToken
    /\ sessionFile = NoToken
    /\ verified = NoClaims
    /\ JWT_SECRET \in {"", "secret"}
    /\ clock = 0
    /\ userdb \in UserDbs
    /\ jwt = NoJwt
    /\ attempt = NoAttempt

WebLoginAttempt ==
    \E username \in LoginNames, password \in Passwords, fail \in {0, 1} :
        login(username, password, fail)

CliLoginAttempt ==
    \E username \in LoginNames, password \in Passwords, fail \in {0, 1} :
        cli_login(username, password, fail)

AuthenticateCall ==
    \E username \in LoginNames, password \in Passwords, fail \in {0, 1} :
        Authenticate(username, password, fail)

RolesLookup == \E user_id \in UserIds : LoadRoles(user_id)

NextLogin ==
    \/ AuthenticateCall
    \/ WebLoginAttempt
    \/ CliLoginAttempt
    \/ RolesLookup

SpecLogin == InitLogin /\ [][NextLogin]_vars

----------------------------------------------------------------------------
(* SpecToken: create_token and verify_token over time *)

MaxTicks == 3        \* ticks of the clock, each half a token lifetime

Usernames == {"alice", "bob"}

\* role lists put in tokens: none, one, and the same two in both orders
TokenRoles == {<<>>, <<"readonly">>, <<"user", "admin">>, <<"admin", "user">>}

\* the secret is configured or not; nothing else has happened
InitToken ==
    /\ records = {}
    /\ nextId = 1
    /\ gw = NoGw
    /\ last = NoLast
    /\ pol = NoPol
    /\ session = NoToken
    /\ sessionFile = NoToken
    /\ verified = NoClaims
    /\ JWT_SECRET \in {"", "secret"}
    /\ clock = 0
    /\ userdb = SeedUserDb
    /\ jwt = NoJwt
    /\ attempt = NoAttempt

\* time passes
Tick ==
    /\ clock < MaxTicks * (JWT_EXPIRATION_HOURS \div 2)
    /\ clock' = clock + JWT_EXPIRATION_HOURS \div 2
    /\ UNCHANGED <<records, nextId, gw, last, pol, idVars, JWT_SECRET, userdb, jwt, attempt>>

\* create_token(user_id, username, roles) is called
TokenCreate ==
    \E u \in Users, n \in Usernames, r \in TokenRoles :
        LET res == create_token(u, n, r)
        IN /\ jwt' = [op |-> "create_token", user_id |-> u, username |-> n, roles |-> r,
                      issued |-> res.out, presented |-> res.out, at |-> clock,
                      result |-> res]
           /\ UNCHANGED <<records, nextId, gw, last, pol, idVars, JWT_SECRET, clock,
                          userdb, attempt>>

\* what can be made of a token outside the program: the same payload signed
\* with another key, and a string that is no JWT
Tampered(token) ==
    {[token EXCEPT !.key = "other"], [token EXCEPT !.form = "garbage"]}

\* the holder of a token alters it, or a forged one is presented
TokenTamper ==
    \E t \in UNION {Tampered(x) : x \in jwt.issued} \cup ForgedTokens :
        /\ jwt.presented # {t}
        /\ jwt' = [jwt EXCEPT !.op = "tamper", !.presented = {t}, !.result = NoResult]
        /\ UNCHANGED <<records, nextId, gw, last, pol, idVars, JWT_SECRET, clock,
                       userdb, attempt>>

\* verify_token(token) is called on the presented token
TokenVerify ==
    \E token \in jwt.presented : \E expired \in ExpiredAt(token, clock) :
        /\ jwt' = [jwt EXCEPT !.op = "verify_token", !.at = clock,
                              !.result = verify_token(token, expired)]
        /\ UNCHANGED <<records, nextId, gw, last, pol, idVars, JWT_SECRET, clock,
                       userdb, attempt>>

NextToken ==
    \/ Tick
    \/ TokenCreate
    \/ TokenTamper
    \/ TokenVerify

SpecToken == InitToken /\ [][NextToken]_vars

----------------------------------------------------------------------------
(* SpecSession: sessions over time, with the user tables changing.  Alice    *)
(* uses the browser, bob the CLI agent.                                      *)

InitSession ==
    /\ records = {}
    /\ nextId = 1
    /\ gw = NoGw
    /\ last = NoLast
    /\ pol = NoPol
    /\ session = NoToken
    /\ sessionFile = NoToken
    /\ verified = NoClaims
    /\ AuthIdle

\* time passes; a web request is over long before the clock ticks
SessionTick == gw.entry # "web" /\ Tick

\* alice logs in on the web with her password or a wrong one
SessionWebLogin == \E password \in {"pw-a", "pw-b"} : login("alice", password, 0)

\* bob logs in at the CLI with his password or a wrong one
SessionCliLogin == \E password \in {"pw-a", "pw-b"} : cli_login("bob", password, 0)

\* GET /logout
SessionLogout == logout /\ attempt' = [NoAttempt EXCEPT !.entry = "logout"]

\* POST /api/chat with the token of the session, at the time the clock shows
SessionChat ==
    \E token \in session : \E expired \in ExpiredAt(token, clock) :
        /\ api_chat([says_user_id |-> {}], token, expired)
        /\ attempt' = [NoAttempt EXCEPT !.entry = "api_chat",
                                        !.auth = verify_token(token, expired),
                                        !.token = {token}]

\* the outcomes of the exp check on the token of the session file
FileExpired ==
    IF \E t \in sessionFile : t.form = "jwt"
    THEN UNION {ExpiredAt(t, clock) : t \in sessionFile} ELSE {FALSE}

\* python passProtect.py at the time the clock shows: the agent starts, or
\* require_auth raises SessionError and perform_login prompts
SessionAgentStart ==
    \E expired \in FileExpired :
        /\ attempt' = [NoAttempt EXCEPT !.entry = "main", !.auth = require_auth(expired),
                                        !.token = sessionFile]
        /\ IF require_auth(expired).ok THEN main(expired)
           ELSE UNCHANGED <<records, nextId, gw, last, pol, idVars, JWT_SECRET, clock,
                            userdb, jwt>>

\* a turn of the chat or of the agent in which the planner calls a tool
SessionToolCall ==
    \E args \in ArgsOf("get_table_schema") : ToolCall("get_table_schema", args, 0)

\* between two web requests an administrator takes the admin role from alice
\* and gives her readonly
RolesChanged ==
    /\ gw.entry # "web"
    /\ <<5, 1>> \in userdb.users_roles
    /\ userdb' = [userdb EXCEPT !.users_roles = (@ \ {<<5, 1>>}) \cup {<<5, 2>>}]
    /\ UNCHANGED <<records, nextId, gw, last, pol, idVars, JWT_SECRET, clock, jwt, attempt>>

\* between two web requests an administrator disables alice and archives bob
AccountsClosed ==
    /\ gw.entry # "web"
    /\ \E r \in userdb.user : r.id = 5 /\ r.enabled = 1
    /\ userdb' = [userdb EXCEPT !.user =
                     {IF r.id = 5 THEN [r EXCEPT !.enabled = 0]
                      ELSE [r EXCEPT !.archived = 1] : r \in userdb.user}]
    /\ UNCHANGED <<records, nextId, gw, last, pol, idVars, JWT_SECRET, clock, jwt, attempt>>

\* the site is restarted with another JWT_SECRET in its environment
Redeploy ==
    /\ JWT_SECRET = "secret"
    /\ gw.entry = "none"
    /\ JWT_SECRET' = "rotated"
    /\ UNCHANGED <<records, nextId, gw, last, pol, idVars, clock, userdb, jwt, attempt>>

NextSession ==
    \/ SessionTick
    \/ SessionWebLogin
    \/ SessionCliLogin
    \/ SessionLogout
    \/ SessionChat
    \/ SessionAgentStart
    \/ SessionToolCall
    \/ CliTamper
    \/ WebChatEnd
    \/ cleanup
    \/ RolesChanged
    \/ AccountsClosed
    \/ Redeploy

SpecSession == InitSession /\ [][NextSession]_vars

----------------------------------------------------------------------------
(* SpecLookup: read_password applied to tables of several records *)

\* the rows the table may hold: three of user 5, one of them archived, and
\* one of user 12
LookupRows ==
    {[id |-> 1, created_by_user_id |-> {5}, companyName |-> {<<"N", "e", "t">>},
      companyPassword |-> {"pw1"}, archived |-> 0],
     [id |-> 2, created_by_user_id |-> {5}, companyName |-> {<<"I", "n", "e", "t">>},
      companyPassword |-> {"pw2"}, archived |-> 0],
     [id |-> 3, created_by_user_id |-> {5}, companyName |-> {<<"n", "e", "t">>},
      companyPassword |-> {"pw3"}, archived |-> 1],
     [id |-> 4, created_by_user_id |-> {12}, companyName |-> {<<"I", "n", "e", "t">>},
      companyPassword |-> {"pw4"}, archived |-> 0]}

\* the company names asked for
LookupCompanies ==
    {<<>>, <<"n", "e", "t">>, <<"N", "E">>, <<"i", "n">>, <<"x">>, <<"_", "e", "t">>,
     <<"%">>}

\* what the caller of read_password gets, by the number of rows found
TextFor(r) ==
    IF r.kind # "ok" THEN r.kind
    ELSE IF Cardinality(r.returned) = 1 THEN "Password for" ELSE "Found matching passwords"

InitLookup ==
    /\ records \in SUBSET LookupRows
    /\ nextId = 5
    /\ \E u \in Users : gw = Spawn("cli", u, <<"readonly">>)
    /\ last = NoLast
    /\ pol = NoPol
    /\ session = NoToken
    /\ sessionFile = NoToken
    /\ verified = NoClaims
    /\ AuthIdle

\* the planner calls read_password; the company and the text are kept with
\* the result
Lookup ==
    \E company \in LookupCompanies, fail \in FailsOf("read_password") :
        LET args == [NoArgs EXCEPT !.company = company]
            r == call_tool("read_password", args, gw.USER_ID, records, nextId, fail)
        IN /\ gw.entry # "none"
           /\ records' = r.recs
           /\ nextId' = r.nid
           /\ last' = [op |-> "read_password", kind |-> r.kind, calls |-> r.calls,
                       returned |-> r.returned, noconds |-> TRUE,
                       company |-> company, text |-> TextFor(r)]
           /\ UNCHANGED <<gw, pol, idVars, authVars>>

NextLookup == Lookup

SpecLookup == InitLookup /\ [][NextLookup]_vars

----------------------------------------------------------------------------
(* SpecQuery: execute_custom_query applied to query texts *)

\* query texts: none, reads, other statements, and a read followed by
\* another statement
QueryTexts ==
    {<<>>, <<"SELECT", "*">>, <<" ", "select", "*">>, <<"DELETE", "*">>,
     <<"TRUNCATE">>, <<" ", "delete", "*">>,
     <<"SELECT", "*", ";", "DELETE", "*">>, <<"SELECT", "*", ";", "TRUNCATE">>}

InitQuery ==
    /\ records \in SUBSET LookupRows
    /\ nextId = 5
    /\ \E u \in Users : gw = Spawn("cli", u, <<"admin">>)
    /\ last = NoLast
    /\ pol = NoPol
    /\ session = NoToken
    /\ sessionFile = NoToken
    /\ verified = NoClaims
    /\ AuthIdle

\* the planner calls execute_custom_query; the text is kept with the result
CustomQuery ==
    \E query \in QueryTexts, fail \in {0, 1, 2} :
        LET args == [NoArgs EXCEPT !.query = query]
            r == call_tool("execute_custom_query", args, gw.USER_ID, records, nextId, fail)
        IN /\ gw.entry # "none"
           /\ fail = 2 => Stacked(query)
           /\ records' = r.recs
           /\ nextId' = r.nid
           /\ last' = [op |-> "execute_custom_query", kind |-> r.kind, calls |-> r.calls,
                       returned |-> r.returned, noconds |-> TRUE, query |-> query]
           /\ UNCHANGED <<gw, pol, idVars, authVars>>

NextQuery == CustomQuery

SpecQuery == InitQuery /\ [][NextQuery]_vars

----------------------------------------------------------------------------
(* SpecMutate: create_record, update_record and delete_record on a table of  *)
(* two users                                                                 *)

\* the rows the table holds at first: one of user 5, one of user 12
MutateRows ==
    {[id |-> 1, created_by_user_id |-> {5}, companyName |-> {<<"N", "e", "t">>},
      companyPassword |-> {"pw1"}, archived |-> 0],
     [id |-> 2, created_by_user_id |-> {12}, companyName |-> {<<"I", "n", "e", "t">>},
      companyPassword |-> {"pw1"}, archived |-> 0]}

\* inputSchema of create_record: data requires companyName, companyPassword
\* and created_by_user_id
InputValid(name, args) ==
    name = "create_record" =>
        /\ args.data.companyName # {}
        /\ args.data.companyPassword # {}
        /\ args.data.created_by_user_id # {}

\* the handler registered by @app.call_tool(): a server library that
\* validates the arguments against the inputSchema answers by itself when
\* they do not fit (validate), another hands every call to call_tool
handle_call_tool(name, args, user_id_str, recs, nid, fail, validate) ==
    IF validate /\ ~InputValid(name, args) THEN Refused(recs, nid)
    ELSE call_tool(name, args, user_id_str, recs, nid, fail)

MutatingTools == {"create_record", "update_record", "delete_record"}

\* the arguments proposed: data that is empty, lacks the secret, lacks the
\* owner, or is complete; a new company name; conditions that are empty or name a
\* record by id or by company name
MutateArgs(name) ==
    {a \in ArgsOf(name) :
        /\ a.data.created_by_user_id \in {{}, {5}}
        /\ a.data.companyName \in {{}, {<<"N", "e", "t">>}}
        /\ name = "update_record" => a.data.companyName # {}
        /\ a.conditions.created_by_user_id = {}
        /\ a.conditions.companyName \in {{}, {<<"I", "n", "e", "t">>}}}

InitMutate ==
    /\ records \in SUBSET MutateRows
    /\ nextId = 3
    /\ \E u \in Users : gw = Spawn("cli", u, <<"admin">>)
    /\ last = NoLast
    /\ pol = NoPol
    /\ session = NoToken
    /\ sessionFile = NoToken
    /\ verified = NoClaims
    /\ AuthIdle

\* the planner calls a mutating tool; the arguments, the affected-row count
\* and whether the query was made to fail are kept with the result
Mutate ==
    \E name \in MutatingTools : \E args \in MutateArgs(name), fail \in {0, 1},
                                    validate \in BOOLEAN :
        LET r == handle_call_tool(name, args, gw.USER_ID, records, nextId, fail, validate)
        IN /\ gw.entry # "none"
           /\ r.nid <= MaxRecords + 3
           /\ records' = r.recs
           /\ nextId' = r.nid
           /\ last' = [op |-> name, kind |-> r.kind, calls |-> r.calls,
                       returned |-> r.returned,
                       noconds |-> (args.conditions = NoConditions),
                       affected |-> r.affected, args |-> args, fail |-> fail]
           /\ UNCHANGED <<gw, pol, idVars, authVars>>

NextMutate == Mutate

SpecMutate == InitMutate /\ [][NextMutate]_vars

----------------------------------------------------------------------------
(* SpecStorage: execute_query step by step, with the places where it fails *)

\* connections the database server grants the gateway process
MaxConnections == 2

\* where a call of execute_query raises: nowhere, in get_db_connection, in
\* connection.cursor, in cursor.execute, in connection.commit
FailurePoints == {"none", "connect", "cursor", "execute", "commit"}

\* an execute_query on a connection in autocommit mode
execute_query_autocommit(where, connected, fetch) ==
    [raised |-> IF where = "none" THEN "none" ELSE "Exception",
     committed |-> ~fetch /\ where \in {"none", "commit"},
     acquired |-> IF where = "connect" THEN 0 ELSE 1,
     left |-> 0]

\* execute_query(query, params, fetch) raising at `where`; `connected` is
\* what connection.is_connected() answers in the finally block after a
\* failure.  get_db_connection raises a plain Exception, which `except Error`
\* lets pass with connection = None.  A mysql Error is answered by rollback
\* and Exception("Query execution failed").  In the finally block, after
\* connection.cursor raised, `cursor` is unbound: cursor.close() raises
\* UnboundLocalError and connection.close() is not reached.
\* committed: the statement took effect; acquired: connections opened;
\* left: connections still open when the call is over
execute_query(where, connected, fetch) ==
    [raised |-> IF where = "none" THEN "none"
                ELSE IF where = "cursor" /\ connected THEN "UnboundLocalError"
                ELSE "Exception",
     committed |-> ~fetch /\ where = "none",
     acquired |-> IF where = "connect" THEN 0 ELSE 1,
     left |-> IF where = "cursor" /\ connected THEN 1 ELSE 0]

\* the tools whose one query is made through execute_query
StorageTools == MutatingTools \cup {"read_records"}

\* the names the planner proposes: these tools and a name outside the catalog
StorageNames == StorageTools \cup {"get_recent_searches"}

\* the arguments proposed: data that is empty or a company name, conditions
\* that are empty or name a record by id
StorageArgs(name) ==
    {a \in MutateArgs(name) :
        /\ a.data.created_by_user_id = {}
        /\ a.data.companyPassword = {}
        /\ a.conditions.companyName = {}}

InitStorage ==
    /\ records \in SUBSET MutateRows
    /\ nextId = 3
    /\ \E u \in Users : gw = Spawn("cli", u, <<"admin">>) @@ [open |-> 0]
    /\ last = NoLast
    /\ pol = NoPol
    /\ session = NoToken
    /\ sessionFile = NoToken
    /\ verified = NoClaims
    /\ AuthIdle

\* a tool call whose query runs through execute_query and raises at `where`,
\* or nowhere; a server that has no connection left refuses the next one
StorageCall ==
    \E name \in StorageNames : \E args \in StorageArgs(name), where \in FailurePoints,
                                   connected \in BOOLEAN :
        LET q == execute_query(where, connected, name = "read_records")
            done == call_tool(name, args, gw.USER_ID, records, nextId, 0)
            r == call_tool(name, args, gw.USER_ID, records, nextId,
                           IF q.raised = "none" THEN 0 ELSE 1)
            asked == r.calls > 0
        IN /\ gw.entry # "none"
           /\ ~asked => where = "none"
           /\ gw.open >= MaxConnections => where = "connect"
           /\ name = "read_records" => where # "commit"
           /\ where # "cursor" => connected
           /\ done.nid <= MaxRecords + 3
           /\ records' = IF asked /\ q.committed THEN done.recs ELSE records
           /\ nextId' = IF asked /\ q.committed THEN done.nid ELSE nextId
           /\ gw' = [gw EXCEPT !.open = IF asked THEN @ + q.left ELSE @]
           /\ last' = [op |-> name,
                       kind |-> r.kind,
                       calls |-> r.calls,
                       returned |-> r.returned,
                       noconds |-> (args.conditions = NoConditions),
                       args |-> args,
                       where |-> IF asked THEN where ELSE "none",
                       raised |-> IF asked THEN q.raised ELSE "none",
                       acquired |-> IF asked THEN q.acquired ELSE 0]
           /\ UNCHANGED <<pol, idVars, authVars>>

\* the gateway process ends and its connections with it; another is started
StorageRestart ==
    /\ gw.open > 0
    /\ gw' = [gw EXCEPT !.open = 0]
    /\ UNCHANGED <<records, nextId, last, pol, idVars, authVars>>

NextStorage ==
    \/ StorageCall
    \/ StorageRestart

SpecStorage == InitStorage /\ [][NextStorage]_vars

----------------------------------------------------------------------------
(* SpecRegister: concurrent calls of db_access.register_new_user, each a      *)
(* request of its own, interleaved at their statements                       *)

MaxUsers == 3        \* rows of table user

\* the requests in flight
Procs == {1, 2}

RegNames == {"alice", "dave"}
RegEmails == {"a@x", "d@x"}

\* a request that has not called register_new_user
RegIdle == [pc |-> "idle", username |-> "", email |-> "", user_id |-> 0, error |-> "none"]

\* table user holds alice; `unique` says whether the table carries UNIQUE
\* indexes on userName and email, which the code does not create or check
RegisterDbs ==
    {[user |-> {[id |-> 5, userName |-> "alice", email |-> "a@x", password |-> "hash-a",
                 enabled |-> 1, archived |-> 0, lastLogin |-> {}]},
      role |-> SeedUserDb.role,
      users_roles |-> {<<5, 1>>},
      unique |-> u] : u \in BOOLEAN}

InitRegister ==
    /\ records = {}
    /\ nextId = 1
    /\ gw = NoGw
    /\ last = NoLast
    /\ pol = NoPol
    /\ session = NoToken
    /\ sessionFile = NoToken
    /\ verified = NoClaims
    /\ JWT_SECRET = "secret"
    /\ clock = 0
    /\ userdb \in RegisterDbs
    /\ jwt = NoJwt
    /\ attempt = [p \in Procs |-> RegIdle]

RegUnchanged == UNCHANGED <<records, nextId, gw, last, pol, idVars, JWT_SECRET, clock, jwt>>

\* register_new_user(username, email, password) begins:
\* fetch_one("SELECT id FROM user WHERE userName = %s")
RegCheckUsername(p) ==
    \E username \in RegNames, email \in RegEmails :
        /\ attempt[p].pc = "idle"
        /\ attempt' = [attempt EXCEPT ![p] =
              IF \E r \in userdb.user : r.userName = username
              THEN [RegIdle EXCEPT !.pc = "raised", !.username = username,
                                   !.email = email, !.error = "Username is already taken"]
              ELSE [RegIdle EXCEPT !.pc = "username_checked", !.username = username,
                                   !.email = email]]
        /\ UNCHANGED userdb
        /\ RegUnchanged

\* fetch_one("SELECT id FROM user WHERE email = %s")
RegCheckEmail(p) ==
    /\ attempt[p].pc = "username_checked"
    /\ attempt' = [attempt EXCEPT ![p] =
          IF \E r \in userdb.user : r.email = attempt[p].email
          THEN [@ EXCEPT !.pc = "raised", !.error = "Email is already registered"]
          ELSE [@ EXCEPT !.pc = "email_checked"]]
    /\ UNCHANGED userdb
    /\ RegUnchanged

\* the id AUTO_INCREMENT gives the next row
NewUserId == 1 + CHOOSE m \in {r.id : r \in userdb.user} : \A r \in userdb.user : r.id <= m

\* execute("INSERT INTO user ..."): a table with UNIQUE indexes refuses a
\* duplicate and execute raises
RegInsertUser(p) ==
    LET dup == \E r \in userdb.user :
                   r.userName = attempt[p].username \/ r.email = attempt[p].email
    IN /\ attempt[p].pc = "email_checked"
       /\ Cardinality(userdb.user) < MaxUsers
       /\ IF userdb.unique /\ dup
          THEN /\ attempt' = [attempt EXCEPT ![p] =
                     [@ EXCEPT !.pc = "raised", !.error = "Query execution failed"]]
               /\ UNCHANGED userdb
          ELSE /\ attempt' = [attempt EXCEPT ![p] =
                     [@ EXCEPT !.pc = "user_inserted", !.user_id = NewUserId]]
               /\ userdb' = [userdb EXCEPT !.user = @ \cup
                     {[id |-> NewUserId, userName |-> attempt[p].username,
                       email |-> attempt[p].email, password |-> "hash-new",
                       enabled |-> 1, archived |-> 0, lastLogin |-> {}]}]
       /\ RegUnchanged

\* execute("INSERT INTO users_roles (users_ID, roles_ID) VALUES (%s, 5)")
RegInsertRole(p) ==
    /\ attempt[p].pc = "user_inserted"
    /\ attempt' = [attempt EXCEPT ![p] = [@ EXCEPT !.pc = "returned"]]
    /\ userdb' = [userdb EXCEPT !.users_roles = @ \cup {<<attempt[p].user_id, 5>>}]
    /\ RegUnchanged

\* the request is answered; the worker takes the next one
RegEnd(p) ==
    /\ attempt[p].pc \in {"returned", "raised"}
    /\ attempt' = [attempt EXCEPT ![p] = RegIdle]
    /\ UNCHANGED userdb
    /\ RegUnchanged

NextRegister ==
    \E p \in Procs :
        \/ RegCheckUsername(p)
        \/ RegCheckEmail(p)
        \/ RegInsertUser(p)
        \/ RegInsertRole(p)
        \/ RegEnd(p)

SpecRegister == InitRegister /\ [][NextRegister]_vars

----------------------------------------------------------------------------
(* SpecTurn: one user turn after another in process_chat_message and         *)
(* process_request; the tool calls of a turn, call by call                   *)

MaxCalls == 2        \* tool calls the planner proposes in one turn

\* the calls a planner proposes, each with its arguments
TurnCalls ==
    {[name |-> "create_record",
      args |-> [NoArgs EXCEPT !.data = [NoData EXCEPT !.companyName = {<<"N", "e", "t">>},
                                                     !.companyPassword = {"pw1"},
                                                     !.created_by_user_id = {5}]]],
     [name |-> "read_records", args |-> NoArgs],
     [name |-> "delete_record", args |-> [NoArgs EXCEPT !.conditions.id = {1}]]}

\* no turn is running.  calls: assistant_message.tool_calls; inflight: the
\* indexes of the calls sent to the gateway and not answered; results:
\* tool_results, in the order recorded; prompt: the tool messages of the
\* final completion
NoTurn == [pc |-> "idle", calls |-> <<>>, inflight |-> {}, results |-> <<>>, prompt |-> <<>>]

InitTurn ==
    /\ records = {}
    /\ nextId = 1
    /\ \E entry \in {"web", "cli"} : gw = Spawn(entry, 5, <<"admin">>)
    /\ last = NoLast
    /\ pol = NoPol
    /\ session = NoToken
    /\ sessionFile = NoToken
    /\ verified = NoClaims
    /\ JWT_SECRET = "secret"
    /\ clock = 0
    /\ userdb = SeedUserDb
    /\ jwt = NoJwt
    /\ attempt = NoTurn

TurnUnchanged == UNCHANGED <<gw, last, pol, idVars, JWT_SECRET, clock, userdb, jwt>>

\* a loop that starts every tool call without awaiting the one before
MaySend_gather(turn) == turn.pc = "loop"

\* `for tool_call in assistant_message.tool_calls: result = await call_tool(...)`:
\* the body runs for the next call when the one before it has been answered
\* and its result appended
MaySend(turn) == turn.pc = "loop" /\ turn.inflight = {}

\* the first completion returns tool calls
TurnPlanned ==
    \E calls \in SeqsUpTo(TurnCalls, MaxCalls) :
        /\ attempt.pc = "idle"
        /\ calls # <<>>
        /\ attempt' = [NoTurn EXCEPT !.pc = "loop", !.calls = calls]
        /\ UNCHANGED <<records, nextId>>
        /\ TurnUnchanged

\* mcp_session.call_tool(tool_name, tool_args) is sent for the next call
TurnSend ==
    \E k \in 1..Len(attempt.calls) :
        /\ MaySend(attempt)
        /\ k \notin attempt.inflight
        /\ \A j \in 1..(k - 1) :
              j \in attempt.inflight \/ \E i \in 1..Len(attempt.results) : attempt.results[i].k = j
        /\ \A i \in 1..Len(attempt.results) : attempt.results[i].k # k
        /\ attempt' = [attempt EXCEPT !.inflight = @ \cup {k}]
        /\ UNCHANGED <<records, nextId>>
        /\ TurnUnchanged

\* the gateway runs a call it was sent and answers; the result is appended
\* to tool_results
TurnReceive ==
    \E k \in attempt.inflight :
        LET c == attempt.calls[k]
            r == call_tool(c.name, c.args, gw.USER_ID, records, nextId, 0)
        IN /\ r.nid <= MaxRecords + 1 \/ r.nid = nextId
           /\ records' = r.recs
           /\ nextId' = r.nid
           /\ attempt' = [attempt EXCEPT
                 !.inflight = @ \ {k},
                 !.results = Append(@, [k |-> k, name |-> c.name, kind |-> r.kind,
                                        returned |-> r.returned,
                                        affected |-> r.affected])]
           /\ TurnUnchanged

\* after the loop: messages.extend(tool_results) and the final completion
TurnFinal ==
    /\ attempt.pc = "loop"
    /\ attempt.inflight = {}
    /\ Len(attempt.results) = Len(attempt.calls)
    /\ attempt' = [attempt EXCEPT !.pc = "final", !.prompt = attempt.results]
    /\ UNCHANGED <<records, nextId>>
    /\ TurnUnchanged

\* the final message is returned; the next turn may begin
TurnEnd ==
    /\ attempt.pc = "final"
    /\ attempt' = NoTurn
    /\ UNCHANGED <<records, nextId>>
    /\ TurnUnchanged

NextTurn ==
    \/ TurnPlanned
    \/ TurnSend
    \/ TurnReceive
    \/ TurnFinal
    \/ TurnEnd

SpecTurn == InitTurn /\ [][NextTurn]_vars

----------------------------------------------------------------------------
(* SpecFile: cli_login.save_session statement by statement on the session    *)
(* file                                                                      *)

\* permission bits for owner, group and others
Mode600 == <<{"r", "w"}, {}, {}>>
Mode666 == <<{"r", "w"}, {"r", "w"}, {"r", "w"}>>

\* the umask of the process that logs in: 002, 022, 027 or 077
Umasks == {<<{}, {}, {"w"}>>, <<{}, {"w"}, {"w"}>>, <<{}, {"w"}, {"r", "w", "x"}>>,
           <<{}, {"r", "w", "x"}, {"r", "w", "x"}>>}

\* the mode open(path, 'w') gives a file it creates: 0666 & ~umask
CreateMode(umask) == [i \in 1..3 |-> Mode666[i] \ umask[i]]

\* no save_session is running and there is no session file.  exists, mode:
\* the file; writing: the token save_session was given
NoFile ==
    [pc |-> "idle", umask |-> <<{}, {}, {}>>, exists |-> FALSE, mode |-> <<{}, {}, {}>>,
     writing |-> {}]

InitFile ==
    /\ records = {}
    /\ nextId = 1
    /\ gw = NoGw
    /\ last = NoLast
    /\ pol = NoPol
    /\ session = NoToken
    /\ sessionFile = NoToken
    /\ verified = NoClaims
    /\ JWT_SECRET = "secret"
    /\ clock = 0
    /\ userdb = SeedUserDb
    /\ jwt = NoJwt
    /\ \E umask \in Umasks : attempt = [NoFile EXCEPT !.umask = umask]

FileUnchanged ==
    UNCHANGED <<records, nextId, gw, last, pol, session, verified, JWT_SECRET, clock,
                userdb, jwt>>

\* save_session(token): open(SESSION_FILE, 'w') creates the file with the
\* mode the umask leaves, or empties the file there is and keeps its mode
save_session_open(token) ==
    /\ attempt.pc = "idle"
    /\ attempt' = [attempt EXCEPT !.pc = "opened", !.exists = TRUE, !.writing = {token},
                                  !.mode = IF attempt.exists THEN @
                                           ELSE CreateMode(attempt.umask)]
    /\ sessionFile' = NoToken
    /\ FileUnchanged

SaveOpen ==
    \E u \in Users, roles \in CallerRoles \cup {<<>>} :
        \E token \in Issued(u, Username(u), roles) : save_session_open(token)

\* json.dump(session_data, f) and the end of the with block
SaveWrite ==
    /\ attempt.pc = "opened"
    /\ attempt' = [attempt EXCEPT !.pc = "written"]
    /\ sessionFile' = attempt.writing
    /\ FileUnchanged

\* os.chmod(SESSION_FILE, 0o600)
SaveChmod ==
    /\ attempt.pc = "written"
    /\ attempt' = [attempt EXCEPT !.pc = "idle", !.mode = Mode600, !.writing = {}]
    /\ UNCHANGED sessionFile
    /\ FileUnchanged

\* clear_session: SESSION_FILE.unlink()
clear_session ==
    /\ attempt.pc = "idle"
    /\ attempt.exists
    /\ attempt' = [NoFile EXCEPT !.umask = attempt.umask]
    /\ sessionFile' = NoToken
    /\ FileUnchanged

NextFile ==
    \/ SaveOpen
    \/ SaveWrite
    \/ SaveChmod
    \/ clear_session

SpecFile == InitFile /\ [][NextFile]_vars

----------------------------------------------------------------------------
(* SpecFlow: app.login and cli_login.login statement by statement, each      *)
(* statement succeeding or raising                                           *)

\* no login request is being handled.  steps: the calls that have returned;
\* failed: the call that raised; before: what the session held when the
\* request came
NoFlow ==
    [entry |-> "none", pc |-> "idle", username |-> "", password |-> "", user |-> {},
     roles |-> <<>>, token |-> {}, steps |-> <<>>, failed |-> "none", before |-> {}]

\* a login handler that stores the token before it updates lastLogin
NextStep_store_first(pc) ==
    CASE pc = "authenticate_user" -> "load_user_roles"
      [] pc = "load_user_roles" -> "create_token"
      [] pc = "create_token" -> "store"
      [] pc = "store" -> "update_last_login"
      [] OTHER -> "answered"

\* the order of the statements in the try block of login
NextStep(pc) ==
    CASE pc = "authenticate_user" -> "load_user_roles"
      [] pc = "load_user_roles" -> "create_token"
      [] pc = "create_token" -> "update_last_login"
      [] pc = "update_last_login" -> "store"
      [] OTHER -> "answered"

\* the call at pc has returned
Stepped(flow) == [flow EXCEPT !.pc = NextStep(flow.pc), !.steps = Append(@, flow.pc)]

\* the call at pc has raised: the except branch answers the request
Failed(flow) == [flow EXCEPT !.pc = "answered", !.failed = flow.pc]

\* alice may be disabled
FlowDbs ==
    {[SeedUserDb EXCEPT !.user = {IF r.id = 5 THEN [r EXCEPT !.enabled = e] ELSE r :
                                     r \in SeedUserDb.user}] : e \in {0, 1}}

InitFlow ==
    /\ records = {}
    /\ nextId = 1
    /\ gw = NoGw
    /\ last = NoLast
    /\ pol = NoPol
    /\ session = NoToken
    /\ sessionFile = NoToken
    /\ verified = NoClaims
    /\ JWT_SECRET \in {"", "secret"}
    /\ clock = 0
    /\ userdb \in FlowDbs
    /\ jwt = NoJwt
    /\ attempt = NoFlow

FlowUnchanged == UNCHANGED <<records, nextId, gw, last, pol, verified, JWT_SECRET, clock, jwt>>

\* POST /login or `python cli_login.py` with a username and a password
FlowBegin ==
    \E entry \in {"web", "cli"}, username \in {"alice", "bob"}, password \in {"pw-a", "pw-b"} :
        /\ attempt.pc = "idle"
        /\ attempt' = [NoFlow EXCEPT !.entry = entry, !.pc = "authenticate_user",
                                     !.username = username, !.password = password,
                                     !.before = IF entry = "web" THEN session
                                                ELSE sessionFile]
        /\ UNCHANGED <<session, sessionFile, userdb>>
        /\ FlowUnchanged

\* user = authenticate_user(username, password)
FlowAuthenticate ==
    \E fail \in {0, 1} :
        LET res == authenticate_user(attempt.username, attempt.password, fail)
        IN /\ attempt.pc = "authenticate_user"
           /\ attempt' = IF res.ok THEN [Stepped(attempt) EXCEPT !.user = res.out]
                         ELSE Failed(attempt)
           /\ UNCHANGED <<session, sessionFile, userdb>>
           /\ FlowUnchanged

\* roles = load_user_roles(user['id']); fetch_all may raise
FlowLoadRoles ==
    \E fail \in {0, 1}, user \in attempt.user : \E roles \in load_user_roles(user.id) :
        /\ attempt.pc = "load_user_roles"
        /\ attempt' = IF fail = 0 THEN [Stepped(attempt) EXCEPT !.roles = roles]
                      ELSE Failed(attempt)
        /\ UNCHANGED <<session, sessionFile, userdb>>
        /\ FlowUnchanged

\* token = create_token(...)
FlowCreateToken ==
    \E user \in attempt.user :
        LET res == create_token(user.id, user.userName, attempt.roles)
        IN /\ attempt.pc = "create_token"
           /\ attempt' = IF res.ok THEN [Stepped(attempt) EXCEPT !.token = res.out]
                         ELSE Failed(attempt)
           /\ UNCHANGED <<session, sessionFile, userdb>>
           /\ FlowUnchanged

\* update_last_login(user['id']); execute may raise
FlowUpdateLastLogin ==
    \E fail \in {0, 1}, user \in attempt.user :
        /\ attempt.pc = "update_last_login"
        /\ attempt' = IF fail = 0 THEN Stepped(attempt) ELSE Failed(attempt)
        /\ userdb' = IF fail = 0 THEN update_last_login(user.id) ELSE userdb
        /\ UNCHANGED <<session, sessionFile>>
        /\ FlowUnchanged

\* session['token'] = token, or save_session(token)
FlowStore ==
    /\ attempt.pc = "store"
    /\ attempt' = Stepped(attempt)
    /\ session' = IF attempt.entry = "web" THEN attempt.token ELSE session
    /\ sessionFile' = IF attempt.entry = "cli" THEN attempt.token ELSE sessionFile
    /\ UNCHANGED userdb
    /\ FlowUnchanged

\* the request is answered; the next may come
FlowEnd ==
    /\ attempt.pc = "answered"
    /\ attempt' = NoFlow
    /\ UNCHANGED <<session, sessionFile, userdb>>
    /\ FlowUnchanged

NextFlow ==
    \/ FlowBegin
    \/ FlowAuthenticate
    \/ FlowLoadRoles
    \/ FlowCreateToken
    \/ FlowUpdateLastLogin
    \/ FlowStore
    \/ FlowEnd

SpecFlow == InitFlow /\ [][NextFlow]_vars

----------------------------------------------------------------------------
(* Claims *)

\* the caller of the running gateway process
Caller == int(gw.USER_ID)

\* records whose owner is a user other than the caller
OthersRecords == {r \in records : r.created_by_user_id \in {{u} : u \in Users \ {Caller}}}

ScopedTools == {"read_records", "read_password", "update_record", "delete_record"}

\* C1: a call of read_records, read_password, update_record or delete_record
\* made in A's context neither returns a record owned by another user B nor
\* changes or removes it.
C1_OwnerIsolation ==
    [][(gw.entry # "none" /\ gw' = gw /\ last'.op \in ScopedTools)
        => /\ OthersRecords \subseteq records'
           /\ last'.returned \cap OthersRecords = {}]_vars

\* C2: a catalog operation outside the caller's allow-list is rejected by the
\* gateway and makes no storage call (readonly caller, delete_record).
C2_RejectedOutsideAllowList ==
    (gw.entry # "none" /\ last.op \in Catalog \ allowed_at(gw.entry, gw.roles))
        => (last.calls = 0 /\ last.kind \notin {"ok", "notfound"})

\* C3: after a successful create_record the stored record is owned by the
\* user of the gateway's context, whatever owner the data argument names
\* (stated for the records stored with an owner; a record stored without one
\* departs from the claim as well).
C3_CreateOwnerFromContext ==
    [][(gw.entry # "none" /\ gw' = gw /\ last'.op = "create_record" /\ last'.kind = "ok")
        => \A r \in records' \ records :
               r.created_by_user_id # {} => r.created_by_user_id = {Caller}]_vars

\* C4: the owner of a record never changes while the record exists.
C4_OwnerImmutable ==
    [][\A r \in records : \A q \in records' :
          q.id = r.id => q.created_by_user_id = r.created_by_user_id]_vars

\* C5: update_record and delete_record called with empty conditions return a
\* validation error, make no storage call and leave storage unchanged, for
\* every caller and every data argument.
C5_EmptyConditionsRefused ==
    [][(gw.entry # "none" /\ gw' = gw
        /\ last'.op \in {"update_record", "delete_record"} /\ last'.noconds)
        => /\ last'.kind = "validation"
           /\ last'.calls = 0
           /\ records' = records
           /\ nextId' = nextId]_vars

\* a delete_record with empty conditions was refused while a record existed
C5_Witness ==
    /\ last.op = "delete_record"
    /\ last.noconds
    /\ last.kind = "validation"
    /\ records # {}

\* the allow-list table of the specification
TableAllowed(roles) ==
    IF In("admin", roles) THEN Catalog
    ELSE IF In("user", roles) \/ In("generalUser", roles) THEN
        {"create_record", "read_records", "update_record", "get_table_schema",
         "read_password"}
    ELSE IF In("readonly", roles) THEN
        {"read_records", "get_table_schema", "read_password"}
    ELSE {}

\* results computed so far, each with the role list it was computed from
PolicyResults ==
    (IF pol.web = <<>> THEN {}
     ELSE {<<"web", pol.roles, pol.web[1]>>, <<"web", pol.other, pol.web[2]>>})
    \cup
    (IF pol.cli = <<>> THEN {}
     ELSE {<<"cli", pol.roles, pol.cli[1]>>, <<"cli", pol.other, pol.cli[2]>>})

\* C6: at both entry points the allow-list of every role list is the one the
\* table gives (first matching row wins, other role names are ignored).
C6_AllowListIsTable ==
    \A x \in PolicyResults : x[3].allowed = TableAllowed(x[2])

\* the row of the table a role list falls in: 3 admin, 2 user or
\* generalUser, 1 readonly, 0 none
Tier(roles) ==
    IF In("admin", roles) THEN 3
    ELSE IF In("user", roles) \/ In("generalUser", roles) THEN 2
    ELSE IF In("readonly", roles) THEN 1
    ELSE 0

\* C7: every allow-list is a subset of the catalog, equal role lists give
\* equal allow-lists, and at each entry point admin's set includes user's,
\* which includes readonly's.
C7_SubsetAndChain ==
    /\ \A x \in PolicyResults : x[3].allowed \subseteq Catalog
    /\ \A x \in PolicyResults, y \in PolicyResults :
          /\ (x[1] = y[1] /\ x[2] = y[2]) => x[3] = y[3]
          /\ (x[1] = y[1] /\ Tier(x[2]) = 3 /\ Tier(y[2]) = 2)
                => y[3].allowed \subseteq x[3].allowed
          /\ (x[1] = y[1] /\ Tier(x[2]) = 2 /\ Tier(y[2]) = 1)
                => y[3].allowed \subseteq x[3].allowed

\* both functions were applied to a user-row list and a readonly-row list,
\* and the readonly allow-list is not empty
C7_Witness ==
    /\ pol.web # <<>>
    /\ pol.cli # <<>>
    /\ Tier(pol.roles) = 2
    /\ Tier(pol.other) = 1
    /\ pol.web[2].allowed # {}
    /\ pol.cli[2].allowed # {}

\* C8: for a role list without "admin", execute_custom_query is neither in
\* the allow-list nor among the tools offered to the planner, at either
\* entry point.
C8_CustomQueryAdminOnly ==
    \A x \in PolicyResults :
        ~In("admin", x[2]) =>
            /\ "execute_custom_query" \notin x[3].allowed
            /\ "execute_custom_query" \notin Range(x[3].offered)

\* C9: the web function and the CLI function give the same allow-list for
\* the same role list.
C9_WebEqualsCli ==
    (pol.web # <<>> /\ pol.cli # <<>>)
        => (pol.web[1].allowed = pol.cli[1].allowed
            /\ pol.web[2].allowed = pol.cli[2].allowed)

\* C10: while a gateway process runs, its USER_ID is the string of the
\* integer form of the sub claim of the token the request or agent session
\* was verified with, and the records read_password returns are the ones
\* owned by that user, whatever the request body, the tool arguments, the
\* session or the session file say by then.
C10_GatewayUserIsVerifiedSub ==
    gw.entry # "none" =>
        /\ verified # NoClaims
        /\ \A c \in verified :
              /\ gw.USER_ID = str(int(c.sub))
              /\ last.op = "read_password" =>
                    \A r \in last.returned : r.created_by_user_id = {int(c.sub)}

\* read_password returned the caller's record in a web request while the
\* session file holds a forged token of the other user
C10_Witness ==
    /\ gw.entry = "web"
    /\ last.op = "read_password"
    /\ last.returned # {}
    /\ \E t \in sessionFile : t.key # JWT_SECRET /\ t.sub # gw.USER_ID

\* C11: verify_token applied, before the expiry instant, to the token
\* create_token(u, n, r) returned gives claims whose sub is the string form of
\* u, whose username is n and whose roles are r in the same order.
C11_TokenRoundTrip ==
    (jwt.op = "verify_token" /\ jwt.issued # {} /\ jwt.presented = jwt.issued
        /\ \A t \in jwt.issued : jwt.at < t.exp)
        => /\ jwt.result.ok
           /\ \A c \in jwt.result.out :
                 /\ c.sub = str(jwt.user_id)
                 /\ c.username = jwt.username
                 /\ c.roles = jwt.roles

\* a token for user 12 with a two-role list in non-alphabetical order was
\* verified half a lifetime after it was issued
C11_Witness ==
    /\ jwt.op = "verify_token"
    /\ jwt.result.ok
    /\ jwt.presented = jwt.issued
    /\ jwt.user_id = 12
    /\ jwt.roles = <<"user", "admin">>
    /\ \E t \in jwt.issued : t.iat > 0 /\ jwt.at > t.iat

\* C12: a token issued at time t expires at exactly t + 8 hours; verified
\* after that it fails with the expired kind of TokenError; a token signed with
\* another secret or with a malformed body fails with the invalid kind, which
\* differs from the expired kind; in neither case are claims returned.
C12_ExpiryAndInvalid ==
    /\ jwt.op = "create_token" =>
          \A t \in jwt.result.out : t.iat = jwt.at /\ t.exp = jwt.at + 8
    /\ (jwt.op = "verify_token" /\ jwt.issued # {} /\ jwt.presented = jwt.issued
          /\ \A t \in jwt.issued : jwt.at > t.exp)
          => /\ ~jwt.result.ok
             /\ jwt.result.raised = "TokenError"
             /\ jwt.result.error = "Token has expired"
             /\ jwt.result.out = {}
    /\ (jwt.op = "verify_token" /\ JWT_SECRET # ""
          /\ \E t \in jwt.presented : t.form # "jwt" \/ t.key # JWT_SECRET)
          => /\ ~jwt.result.ok
             /\ jwt.result.raised = "TokenError"
             /\ jwt.result.error = "Invalid token"
             /\ jwt.result.error # "Token has expired"
             /\ jwt.result.out = {}

\* a token was verified later than 8 hours after it was issued and refused
\* as expired
C12_Witness ==
    /\ jwt.op = "verify_token"
    /\ jwt.presented = jwt.issued
    /\ jwt.result.error = "Token has expired"
    /\ \E t \in jwt.issued : jwt.at > t.iat + 8

\* C13: with the signing secret unset, create_token fails with
\* ConfigurationError and returns no token, whatever its arguments.
C13_UnsetSecretConfigurationError ==
    (jwt.op = "create_token" /\ JWT_SECRET = "")
        => /\ ~jwt.result.ok
           /\ jwt.result.raised = "ConfigurationError"
           /\ jwt.result.out = {}

\* the user row a login names, if username and password are given, the row
\* exists, is not archived, is enabled, and the password matches its hash
MayLogin(username, password) ==
    {r \in userdb.user :
        /\ username # "" /\ password # ""
        /\ r.userName = username
        /\ r.archived = 0
        /\ r.enabled = 1
        /\ Bcrypt(password) = r.password}

C15_GenericLoginFailure ==
    (attempt.entry \in {"web", "cli"} /\ attempt.auth.raised = "AuthenticationError")
        => attempt.shown = "Invalid username or password"

\* the names a user's non-archived roles carry
ActiveRoleNames(user_id) ==
    {r.name : r \in {x \in userdb.role :
                        x.archived = 0 /\ <<user_id, x.id>> \in userdb.users_roles}}

\* C19: load_user_roles(user_id) returns exactly the names of the user's
\* roles whose archived flag is 0, the empty list when there is none or the
\* id is falsy, and changes no state.
C19_LoadRolesActiveOnly ==
    [][attempt'.entry = "load_user_roles" =>
          /\ Range(attempt'.roles) =
                (IF attempt'.user_id = 0 THEN {} ELSE ActiveRoleNames(attempt'.user_id))
          /\ Len(attempt'.roles) = Cardinality(Range(attempt'.roles))
          /\ (ActiveRoleNames(attempt'.user_id) = {} => attempt'.roles = <<>>)
          /\ userdb' = userdb
          /\ records' = records
          /\ session' = session
          /\ sessionFile' = sessionFile]_vars

\* user 5, assigned an active and an archived role, got the active one only
C19_Witness ==
    /\ attempt.entry = "load_user_roles"
    /\ attempt.user_id = 5
    /\ attempt.roles # <<>>
    /\ \E r \in userdb.role : r.archived = 1 /\ <<5, r.id>> \in userdb.users_roles

\* a token the site would refuse at the time the clock shows
BadToken(t) == t.form # "jwt" \/ t.key # JWT_SECRET \/ clock > t.exp

\* C16: a session gets a token only in a login with valid credentials, and a
\* gateway is started only for a token that verifies; a web chat request
\* with an expired or wrongly signed token clears the session and the handler
\* does not run; logout discards the token; at the CLI require_auth raises
\* SessionError when the stored token is missing, expired or invalid, and no
\* agent is started.
C16_SessionStateMachine ==
    [][/\ (session' # session /\ session' # NoToken)
            => /\ attempt'.entry = "web"
               /\ attempt'.auth.ok
               /\ MayLogin(attempt'.username, attempt'.password) # {}
               /\ session' = attempt'.token
       /\ \A t \in sessionFile' \ sessionFile :
              t.key = JWT_SECRET
                => /\ attempt'.entry = "cli"
                   /\ attempt'.auth.ok
                   /\ MayLogin(attempt'.username, attempt'.password) # {}
                   /\ attempt'.token = {t}
       /\ (gw.entry = "none" /\ gw'.entry # "none")
            => \E t \in (IF gw'.entry = "web" THEN session ELSE sessionFile) :
                   ~BadToken(t) /\ gw'.USER_ID = t.sub
       /\ (attempt' # attempt /\ attempt'.entry = "api_chat"
              /\ \E t \in attempt'.token : BadToken(t))
            => /\ session' = NoToken
               /\ ~attempt'.auth.ok
               /\ gw' = gw
               /\ verified' = verified
               /\ records' = records
       /\ (attempt' # attempt /\ attempt'.entry = "logout") => session' = NoToken
       /\ (attempt' # attempt /\ attempt'.entry = "main"
              /\ (sessionFile = NoToken \/ \E t \in sessionFile : BadToken(t)))
            => /\ attempt'.auth.raised = "SessionError"
               /\ gw' = gw
               /\ verified' = verified]_vars

\* alice's chat request came after her token expired: the session is empty
C16_Witness ==
    /\ attempt.entry = "api_chat"
    /\ attempt.auth.error = "Token has expired"
    /\ \E t \in attempt.token : t.sub = str(5) /\ clock > t.exp
    /\ session = NoToken
    /\ gw.entry = "none"

\* C17: every protected action verifies the token first: no gateway operation
\* is executed for a session whose token has expired.
C17_NoCallAfterExpiry ==
    [][(gw.entry # "none" /\ gw' = gw /\ last' # last)
          => \A claims \in verified : clock <= claims.exp]_vars

\* C18: a chat request or an agent start with a token of the site that has
\* not expired succeeds and gives the gateway the identity and the roles in
\* the token, whatever the user tables say by then; a token issued by a
\* login carries the roles the tables give at that login.
C18_NoRevocation ==
    [][/\ (attempt' # attempt /\ attempt'.entry \in {"api_chat", "main"}
              /\ attempt'.token # {}
              /\ \A t \in attempt'.token : ~BadToken(t) /\ clock < t.exp)
            => /\ attempt'.auth.ok
               /\ gw'.entry = (IF attempt'.entry = "main" THEN "cli" ELSE "web")
               /\ \A t \in attempt'.token :
                      /\ gw'.USER_ID = t.sub
                      /\ gw'.roles = t.roles
                      /\ gw'.tools = filtered_tools(allowed_at(gw'.entry, t.roles))
       /\ (attempt' # attempt /\ attempt'.entry \in {"web", "cli"})
            => \A t \in attempt'.token :
                   /\ t.sub = str(attempt'.user_id)
                   /\ Range(t.roles) = ActiveRoleNames(attempt'.user_id)]_vars

\* alice's chat runs as admin after she lost the role and was disabled
C18_Witness ==
    /\ attempt.entry = "api_chat"
    /\ gw.entry = "web"
    /\ gw.USER_ID = str(5)
    /\ gw.roles = <<"admin">>
    /\ <<5, 1>> \notin userdb.users_roles
    /\ \E r \in userdb.user : r.id = 5 /\ r.enabled = 0

\* the caller's records that are not archived and carry a name
Lookable ==
    {r \in records : OwnedBy(r, gw.USER_ID) /\ r.archived = 0 /\ r.companyName # {}}

\* C20: read_password(company) returns the caller's non-archived records
\* named company, case ignored, if there is one; otherwise those whose name
\* contains company, case ignored; one match is returned as that record,
\* several are all returned, none gives not found.
C20_TwoPhaseLookup ==
    [][(last'.op = "read_password" /\ last'.kind \in {"ok", "notfound"})
          => LET company == Lower(last'.company)
                 exact == {r \in Lookable :
                              \A n \in r.companyName : Lower(n) = company}
                 partial == {r \in Lookable :
                                \A n \in r.companyName : Contains(Lower(n), company)}
                 expected == IF exact # {} THEN exact ELSE partial
             IN /\ last'.returned = expected
                /\ last'.kind = "notfound" <=> expected = {}
                /\ Cardinality(expected) = 1 => last'.text = "Password for"
                /\ Cardinality(expected) > 1 => last'.text = "Found matching passwords"
                /\ records' = records]_vars

\* a text that is one SELECT statement
IsRead(query) ==
    LET words == FilterSeq(query, QueryWords)
    IN /\ words # <<>>
       /\ Head(words) \in {"SELECT", "select"}
       /\ \A i \in 2..Len(words) : words[i] = "*"

\* C21: execute_custom_query refuses every text that is not a SELECT
\* statement, the empty text too, without a storage call, and no text it
\* accepts changes the table.
C21_CustomQueryReadOnly ==
    [][last'.op = "execute_custom_query" =>
          /\ ~IsRead(last'.query) =>
                (last'.kind = "validation" /\ last'.calls = 0 /\ records' = records)
          /\ records' = records]_vars

\* the caller's records
Mine == {r \in records : OwnedBy(r, gw.USER_ID)}

\* C22: update_record and delete_record with conditions that match no record
\* of the caller report zero affected rows as a normal outcome, and the
\* caller's response is the one he would get were the other users' records
\* not in the table.
C22_ZeroRowsAndNoLeak ==
    [][(last'.op \in {"update_record", "delete_record"} /\ ~last'.noconds
          /\ last'.fail = 0)
          => LET alone == call_tool(last'.op, last'.args, gw.USER_ID, Mine, nextId, 0)
             IN /\ (\A r \in Mine : ~Matches(r, last'.args.conditions))
                      => (last'.kind = "ok" /\ last'.affected = 0 /\ records' = records)
                /\ last'.kind = alone.kind
                /\ last'.affected = alone.affected]_vars

\* C23: create_record with data that lacks the company name or the secret
\* returns a validation error and inserts nothing.
C23_CreateRequiresNameAndSecret ==
    [][(last'.op = "create_record"
          /\ (last'.args.data.companyName = {} \/ last'.args.data.companyPassword = {}))
          => (last'.kind = "validation" /\ last'.calls = 0 /\ records' = records)]_vars

\* C25: when the query of create_record, update_record or delete_record
\* fails, the caller gets an error result and the table is as before the call.
C25_AllOrNothing ==
    [][(last'.op \in MutatingTools /\ last'.where # "none")
          => /\ last'.kind = "error"
             /\ records' = records
             /\ nextId' = nextId]_vars

\* a delete_record whose commit failed: the record it names is still there
C25_Witness ==
    /\ last.op = "delete_record"
    /\ last.where = "commit"
    /\ last.kind = "error"
    /\ \E r \in records : Matches(r, last.args.conditions)

\* C26: each call acquires its own connection and leaves none open, however
\* execute_query ends.
C26_ConnectionReleased ==
    [][last'.op \in StorageTools =>
          /\ gw'.open = gw.open
          /\ last'.calls > 0 /\ last'.where # "connect" => last'.acquired = 1]_vars

\* C24: after any interleaving of registrations no two user rows share a
\* username and no two share an email.
C24_UniqueUsernameAndEmail ==
    \A r1, r2 \in userdb.user :
        r1.id # r2.id => (r1.userName # r2.userName /\ r1.email # r2.email)

\* C27: within a turn the tool calls run one at a time in the order
\* proposed: call k + 1 is sent only when the result of call k is recorded,
\* and the final prompt is composed when all results are recorded.
C27_SequentialToolCalls ==
    /\ Cardinality(attempt.inflight) <= 1
    /\ \A i \in 1..Len(attempt.results) :
          attempt.results[i].k = i /\ attempt.results[i].name = attempt.calls[i].name
    /\ \A k \in attempt.inflight : k = Len(attempt.results) + 1
    /\ attempt.pc = "final"
          => /\ attempt.inflight = {}
             /\ Len(attempt.results) = Len(attempt.calls)
             /\ attempt.prompt = attempt.results

\* a record was created and then read in one turn: the read found it
C27_Witness ==
    /\ attempt.pc = "final"
    /\ Len(attempt.calls) = 2
    /\ attempt.calls[1].name = "create_record"
    /\ attempt.calls[2].name = "read_records"
    /\ attempt.prompt[2].returned # {}

\* C28: whenever the session file holds a token its permission bits are 600,
\* also between the write and the end of save_session.
C28_SessionFileOwnerOnly ==
    sessionFile # NoToken => attempt.mode = Mode600

\* the tokens a login keeps: the web session and the CLI session file
Stored == <<session, sessionFile>>

\* C29: the login stores the token only after authenticate_user,
\* load_user_roles, create_token and update_last_login have returned, in that
\* order; when one of them raises, the request leaves the session as it was;
\* lastLogin is not updated for a login whose credentials were refused.
C29_StoreAfterAllSteps ==
    [][/\ Stored' # Stored
            => /\ attempt.steps = <<"authenticate_user", "load_user_roles",
                                    "create_token", "update_last_login">>
               /\ Stored' = (IF attempt.entry = "web" THEN <<attempt.token, sessionFile>>
                             ELSE <<session, attempt.token>>)
       /\ (attempt'.failed # "none" /\ attempt.failed = "none")
            => /\ Stored' = Stored
               /\ attempt.before = (IF attempt.entry = "web" THEN session' ELSE sessionFile')
       /\ userdb' # userdb
            => /\ attempt.steps = <<"authenticate_user", "load_user_roles", "create_token">>
               /\ MayLogin(attempt.username, attempt.password) # {}]_vars

\* bob's web login failed in update_last_login while alice's token was in
\* the session: her token is still there
C29_Witness ==
    /\ attempt.entry = "web"
    /\ attempt.username = "bob"
    /\ attempt.failed = "update_last_login"
    /\ attempt.token # {}
    /\ \E t \in session : t.username = "alice"

\* the results call_tool returns as text
TextKinds == {"ok", "notfound", "validation", "error", "unknown"}

\* C30: call_tool returns a text result for every tool name and arguments and
\* lets no exception pass; a storage failure is returned as an "Error: ..."
\* text, and a name that is no tool as "Unknown tool" without a storage call.
C30_CallToolTotal ==
    [][last'.op \in StorageNames =>
          /\ last'.kind \in TextKinds
          /\ last'.where # "none" => last'.kind = "error"
          /\ last'.op \notin Catalog
                => /\ last'.kind = "unknown"
                   /\ last'.calls = 0
                   /\ last'.acquired = 0
                   /\ records' = records]_vars

\* the UnboundLocalError of execute_query's finally block came back as an
\* error text
C30_Witness ==
    /\ last.op \in Catalog
    /\ last.raised = "UnboundLocalError"
    /\ last.kind = "error"

====
